---- MODULE Spec2Model ----
(***************************************************************************)
(* A model of the profile store, the fan daemon, the application monitor,  *)
(* the daemon manager and the hardware writer of tailor_gui                *)
(* (profile_system.rs, fan_daemon.rs, profile_controller.rs,               *)
(* daemon_manager.rs, hardware_control.rs).                                *)
(***************************************************************************)
EXTENDS Integers, Sequences, FiniteSets, TLC

VARIABLES
    profiles,              \* ProfileManager.profiles
    active_profile_index,  \* ProfileManager.active_profile_index (0-based)
    file,                  \* content of profiles.json
    last,                  \* the last store/controller call and its result
    running,               \* FanDaemon.running
    current_profile,       \* FanDaemon.current_profile
    loops,                 \* the sampling-loop threads spawned by FanDaemon::start
    caller,                \* the caller thread inside a multi-step method
    monitoring_enabled,    \* ProfileController.monitoring_enabled
    monitors,              \* the threads spawned by start_app_monitoring
    hw_applied,            \* the last HardwareController::apply_profile call
    app_monitoring_enabled,\* DaemonManager.app_monitoring_enabled
    ticks,                 \* the ticks of an application-monitoring loop running alone
    sysfs,                 \* the sysfs/procfs nodes: absent, accepting or rejecting
    hw,                    \* the HardwareController / set_fan_speed call in progress
    lk,                    \* per thread: position, Mutexes held, sysfs I/O in progress
    calc,                  \* a calculate_fan_speed call: curve, temperature, result
    eval,                  \* a call of a function taken alone: name, arguments, result
    si                     \* the lock file of SingleInstance and the processes using it

storeVars == <<profiles, active_profile_index, file, last>>
daemonVars == <<running, current_profile, loops, caller>>
monitorVars == <<monitoring_enabled, monitors, hw_applied>>
managerVars == <<app_monitoring_enabled>>
hardwareVars == <<sysfs, hw>>
\* What the store, daemon and monitor actions of the first part leave alone.
restVars == <<app_monitoring_enabled, ticks, sysfs, hw, lk, calc, eval, si>>
vars == <<profiles, active_profile_index, file, last, running, current_profile,
          loops, caller, monitoring_enabled, monitors, hw_applied,
          app_monitoring_enabled, ticks, sysfs, hw, lk, calc, eval, si>>

(***************************************************************************)
(* Bounds of the model.                                                    *)
(***************************************************************************)
MaxProfiles == 3
MaxLoops == 2
MaxMonitors == 2

(***************************************************************************)
(* Strings that are searched are sequences of characters; names are only   *)
(* compared and stay TLA+ strings.                                         *)
(***************************************************************************)
to_lowercase_char(c) ==
    CASE c = "S" -> "s"
      [] c = "T" -> "t"
      [] c = "E" -> "e"
      [] c = "A" -> "a"
      [] c = "M" -> "m"
      [] OTHER -> c

to_lowercase(s) == [i \in 1..Len(s) |-> to_lowercase_char(s[i])]

\* str::contains: needle occurs in hay as a contiguous run (the empty needle always).
contains(hay, needle) ==
    \E k \in 0..(Len(hay) - Len(needle)) :
        \A i \in 1..Len(needle) : hay[k + i] = needle[i]

\* The signals detect_running_apps can return.
STEAM == <<"s", "t", "e", "a", "m">>
LUTRIS == <<"l", "u", "t", "r", "i", "s">>
GAMEMODE == <<"g", "a", "m", "e", "m", "o", "d", "e">>
NOAPP == <<>>

(***************************************************************************)
(* Profiles and fan curves.                                                *)
(***************************************************************************)
NumCurvePoints == 8

Pt(t, s) == [temp |-> t, speed |-> s]

DefaultCurve ==
    <<Pt(40, 30), Pt(50, 40), Pt(60, 50), Pt(65, 60),
      Pt(70, 70), Pt(75, 80), Pt(80, 90), Pt(85, 100)>>

\* Another well-formed curve, and curves validate() rejects.
PerfCurve ==
    <<Pt(30, 50), Pt(40, 60), Pt(50, 70), Pt(55, 80),
      Pt(60, 85), Pt(65, 90), Pt(70, 95), Pt(75, 100)>>
ShortCurve == SubSeq(DefaultCurve, 1, 7)

\* A validation that lets two adjacent points share a temperature.
FanCurve_validate_NonStrict(curve) ==
    /\ Len(curve) = NumCurvePoints
    /\ \A i \in 2..Len(curve) : ~(curve[i].temp < curve[i - 1].temp)
    /\ \A i \in 1..Len(curve) : ~(curve[i].speed > 100)

FanCurve_validate(curve) ==
    /\ Len(curve) = NumCurvePoints
    /\ \A i \in 2..Len(curve) : ~(curve[i].temp <= curve[i - 1].temp)
    /\ \A i \in 1..Len(curve) : ~(curve[i].speed > 100)

MkProfile(name, is_default, curve, kbd, screen, auto, triggers) ==
    [name |-> name,
     is_default |-> is_default,
     keyboard_brightness |-> kbd,
     fan_curves |-> [f \in {"fan1", "fan2"} |-> curve],
     screen_brightness |-> screen,
     auto_switch_enabled |-> auto,
     trigger_apps |-> triggers]

default_profile == MkProfile("Default", TRUE, DefaultCurve, 50, 70, FALSE, <<>>)

Profile_validate(p) ==
    /\ \A f \in DOMAIN p.fan_curves : FanCurve_validate(p.fan_curves[f])
    /\ ~(p.keyboard_brightness > 100)
    /\ ~(p.screen_brightness > 100)

\* The profiles a caller passes to add_profile and update_profile.
ProfileInputs ==
    {default_profile,
     MkProfile("Gaming", FALSE, PerfCurve, 100, 100, FALSE, <<>>),
     MkProfile("Gaming", FALSE, ShortCurve, 50, 70, FALSE, <<>>),
     MkProfile("Quiet", FALSE, DefaultCurve, 50, 101, FALSE, <<>>)}

(***************************************************************************)
(* The persisted file: absent, a JSON array of profiles, or text that does *)
(* not parse.                                                              *)
(***************************************************************************)
NoFile == [kind |-> "absent", value |-> <<>>]
Unparsable == [kind |-> "garbage", value |-> <<>>]

to_string_pretty(ps) == [kind |-> "json", value |-> ps]

from_str(content) ==
    IF content.kind = "json"
    THEN [ok |-> TRUE, value |-> content.value]
    ELSE [ok |-> FALSE, value |-> <<>>]

\* fs::write: the file is created or truncated, then written.
IoOutcomes == {"ok", "open_failed", "write_failed"}

\* A save that writes only the profile added last instead of the whole list.
save_profiles_Incremental(ps, io) ==
    CASE io = "ok" -> [res |-> "ok",
                       file |-> to_string_pretty(SubSeq(ps, Len(ps), Len(ps)))]
      [] io = "open_failed" -> [res |-> "err_io", file |-> file]
      [] OTHER -> [res |-> "err_io", file |-> Unparsable]

save_profiles(ps, io) ==
    CASE io = "ok" -> [res |-> "ok", file |-> to_string_pretty(ps)]
      [] io = "open_failed" -> [res |-> "err_io", file |-> file]
      [] OTHER -> [res |-> "err_io", file |-> Unparsable]

(***************************************************************************)
(* ProfileManager: the in-memory part of each mutation.                    *)
(***************************************************************************)
RemoveAt(s, i) == SubSeq(s, 1, i - 1) \o SubSeq(s, i + 1, Len(s))

\* add_profile with the push moved before the uniqueness check.
add_profile_mem_PushFirst(ps, p) ==
    IF ~Profile_validate(p) THEN [res |-> "err_validation", profiles |-> ps]
    ELSE IF \E i \in 1..Len(ps) : ps[i].name = p.name
    THEN [res |-> "err_duplicate", profiles |-> Append(ps, p)]
    ELSE [res |-> "ok", profiles |-> Append(ps, p)]

\* index is the 0-based usize of the code; sequences are 1-based.
add_profile_mem(ps, p) ==
    IF ~Profile_validate(p) THEN [res |-> "err_validation", profiles |-> ps]
    ELSE IF \E i \in 1..Len(ps) : ps[i].name = p.name
    THEN [res |-> "err_duplicate", profiles |-> ps]
    ELSE [res |-> "ok", profiles |-> Append(ps, p)]

update_profile_mem(ps, index, p) ==
    IF index >= Len(ps) THEN [res |-> "err_bounds", profiles |-> ps]
    ELSE IF ~Profile_validate(p) THEN [res |-> "err_validation", profiles |-> ps]
    ELSE [res |-> "ok", profiles |-> [ps EXCEPT ![index + 1] = p]]

\* delete_profile resetting the active index whenever a profile is removed.
delete_profile_mem_AlwaysReset(ps, active, index) ==
    IF index >= Len(ps)
    THEN [res |-> "err_bounds", profiles |-> ps, active |-> active]
    ELSE IF ps[index + 1].is_default
    THEN [res |-> "err_default", profiles |-> ps, active |-> active]
    ELSE [res |-> "ok", profiles |-> RemoveAt(ps, index + 1), active |-> 0]

delete_profile_mem(ps, active, index) ==
    IF index >= Len(ps)
    THEN [res |-> "err_bounds", profiles |-> ps, active |-> active]
    ELSE IF ps[index + 1].is_default
    THEN [res |-> "err_default", profiles |-> ps, active |-> active]
    ELSE LET rest == RemoveAt(ps, index + 1)
         IN  [res |-> "ok", profiles |-> rest,
              active |-> IF active >= Len(rest) THEN 0 ELSE active]

Indexes == 0..MaxProfiles

Call(op, index, res) == [op |-> op, index |-> index, res |-> res]

StoreInit ==
    /\ profiles = <<default_profile>>
    /\ active_profile_index = 0
    /\ file = to_string_pretty(<<default_profile>>)
    /\ last = Call("new", 0, "ok")

\* The in-memory effect of a mutation, then save_profiles when its checks
\* passed; io, the outcome of the write, is only drawn when the write happens.
Mutate(op, index, r, active, io) ==
    /\ r.res # "ok" => io = "ok"
    /\ profiles' = r.profiles
    /\ active_profile_index' = active
    /\ IF r.res = "ok"
       THEN LET s == save_profiles(r.profiles, io)
            IN  file' = s.file /\ last' = Call(op, index, s.res)
       ELSE file' = file /\ last' = Call(op, index, r.res)

AddProfile(p, io) ==
    LET r == add_profile_mem(profiles, p)
    IN  /\ Len(r.profiles) <= MaxProfiles
        /\ Mutate("add", Len(profiles), r, active_profile_index, io)
        /\ UNCHANGED <<daemonVars, monitorVars, restVars>>

\* An update that the daemon sees at once, as if it held the store's profile
\* and no copy.
UpdateProfile_Shared(index, p, io) ==
    LET r == update_profile_mem(profiles, index, p)
    IN  /\ Mutate("update", index, r, active_profile_index, io)
        /\ current_profile' = IF r.res = "ok" /\ current_profile # <<>>
                               THEN <<p>> ELSE current_profile
        /\ UNCHANGED <<running, loops, caller, monitorVars, restVars>>

UpdateProfile(index, p, io) ==
    LET r == update_profile_mem(profiles, index, p)
    IN  /\ Mutate("update", index, r, active_profile_index, io)
        /\ UNCHANGED <<daemonVars, monitorVars, restVars>>

DeleteProfile(index, io) ==
    LET r == delete_profile_mem(profiles, active_profile_index, index)
    IN  /\ Mutate("delete", index, r, r.active, io)
        /\ UNCHANGED <<daemonVars, monitorVars, restVars>>

set_active_profile_mem(ps, active, index) ==
    IF index >= Len(ps)
    THEN [res |-> "err_bounds", active |-> active]
    ELSE [res |-> "ok", active |-> index]

SetActiveProfile(index) ==
    LET r == set_active_profile_mem(profiles, active_profile_index, index)
    IN  /\ active_profile_index' = r.active
        /\ last' = Call("set_active", index, r.res)
        /\ UNCHANGED <<profiles, file, daemonVars, monitorVars, restVars>>

\* load_profiles: the list is assigned as soon as the file parses, before the
\* profiles are validated.
load_profiles_mem(ps, content, read_ok) ==
    IF content.kind = "absent" THEN [res |-> "ok", profiles |-> ps]
    ELSE IF ~read_ok THEN [res |-> "err_io", profiles |-> ps]
    ELSE LET parsed == from_str(content)
         IN  IF ~parsed.ok THEN [res |-> "err_parse", profiles |-> ps]
             ELSE IF \E i \in 1..Len(parsed.value) : ~Profile_validate(parsed.value[i])
             THEN [res |-> "err_validation", profiles |-> parsed.value]
             ELSE [res |-> "ok", profiles |-> parsed.value]

LoadProfiles(read_ok) ==
    LET r == load_profiles_mem(profiles, file, read_ok)
    IN  /\ profiles' = r.profiles
        /\ last' = Call("load", 0, r.res)
        /\ UNCHANGED <<active_profile_index, file, daemonVars, monitorVars, restVars>>

\* profiles.json as another program or the user may leave it.
FileInputs ==
    {NoFile, Unparsable,
     to_string_pretty(<<>>),
     to_string_pretty(<<default_profile,
                        MkProfile("Gaming", FALSE, PerfCurve, 100, 100, FALSE, <<>>)>>),
     to_string_pretty(<<default_profile,
                        MkProfile("Gaming", FALSE, ShortCurve, 50, 70, FALSE, <<>>)>>)}

ExternalEdit(content) ==
    /\ file' = content
    /\ last' = Call("external_edit", 0, "ok")
    /\ UNCHANGED <<profiles, active_profile_index, daemonVars, monitorVars, restVars>>


(***************************************************************************)
(* FanDaemon.  Option<T> is a sequence of at most one element.             *)
(***************************************************************************)
None == <<>>
Some(x) == <<x>>
unwrap_or(o, d) == IF o = None THEN d ELSE o[1]

\* The identifiers of the fan-curve map, as the characters contains() scans.
FanIdChars(fan_id) ==
    CASE fan_id = "fan1" -> <<"f", "a", "n", "1">>
      [] fan_id = "fan2" -> <<"f", "a", "n", "2">>
      [] fan_id = "fan3" -> <<"f", "a", "n", "3">>
      [] fan_id = "fan0" -> <<"f", "a", "n", "0">>
      [] fan_id = "fan" -> <<"f", "a", "n">>
      [] fan_id = "fanfan2" -> <<"f", "a", "n", "f", "a", "n", "2">>
      [] fan_id = "cpu_fan" -> <<"c", "p", "u", "_", "f", "a", "n">>
      [] fan_id = "gpu_fan2" -> <<"g", "p", "u", "_", "f", "a", "n", "2">>
      [] fan_id = "cpugpu" -> <<"c", "p", "u", "g", "p", "u">>
      [] fan_id = "rear2" -> <<"r", "e", "a", "r", "2">>
      [] fan_id = "fan2b" -> <<"f", "a", "n", "2", "b">>
      [] fan_id = "fan+2" -> <<"f", "a", "n", "+", "2">>
      [] OTHER -> <<>>

MissingTemp == 50

\* stats.gpus.first().and_then(|gpu| gpu.temperature)
first_gpu_temperature(gpus) == IF gpus = <<>> THEN None ELSE gpus[1].temperature

\* A choice that takes the higher temperature for every fan.
FanTemp_AlwaysMax(fan_id, stats) ==
    LET cpu_temp == unwrap_or(stats.cpu, MissingTemp)
        gpu_temp == unwrap_or(stats.gpu, MissingTemp)
    IN  IF cpu_temp >= gpu_temp THEN cpu_temp ELSE gpu_temp

\* The temperature apply_fan_curves_for_temps evaluates a fan's curve at.
FanTemp(fan_id, stats) ==
    LET cpu_temp == unwrap_or(stats.cpu, MissingTemp)
        gpu_temp == unwrap_or(stats.gpu, MissingTemp)
    IN  IF contains(FanIdChars(fan_id), <<"c", "p", "u">>) \/ fan_id = "fan1"
        THEN cpu_temp
        ELSE IF contains(FanIdChars(fan_id), <<"g", "p", "u">>) \/ fan_id = "fan2"
        THEN gpu_temp
        ELSE IF cpu_temp >= gpu_temp THEN cpu_temp ELSE gpu_temp

FallbackSpeed == 50

\* IEEE-754 single precision, as far as the interpolation uses it. A positive
\* f32 is kept as [m, k] for the value m * 2^(-k) with 2^23 <= m < 2^24.

\* Round to nearest, ties to even, of m * 2^(-k) plus a dropped part that is
\* above, or exactly, half a unit of m.
RoundEven(m, k, above_half, half) ==
    LET m1 == IF above_half \/ (half /\ m % 2 = 1) THEN m + 1 ELSE m
    IN  IF m1 = 2^24 THEN [m |-> 2^23, k |-> k - 1] ELSE [m |-> m1, k |-> k]

\* temp_offset / temp_range for 0 < a <= b <= 255: the quotient scaled into
\* [1, 2), its 24 significant bits by long division, then the rounding.
f32_div(a, b) ==
    IF a = b THEN [m |-> 2^23, k |-> 23]
    ELSE LET k0 == CHOOSE k \in 1..8 : a * 2^k >= b /\ a * 2^(k - 1) < b
             r0 == a * 2^k0 - b
             r1 == (r0 * 256) % b
             r2 == (r1 * 256) % b
             r3 == (r2 * 128) % b
             m == ((256 + (r0 * 256) \div b) * 256 + (r1 * 256) \div b) * 128
                  + (r2 * 128) \div b
         IN  RoundEven(m, k0 + 23, 2 * r3 > b, 2 * r3 = b)

\* speed_range * q for an integer 1 <= a <= 127: the product has at most
\* seven bits beyond the 24 of the significand.
f32_mul(a, q) ==
    LET x == a * q.m
        h == CHOOSE n \in 0..7 : x \div 2^n < 2^24 /\ (n = 0 \/ x \div 2^(n - 1) >= 2^24)
    IN  IF h = 0 THEN [m |-> x, k |-> q.k]
        ELSE RoundEven(x \div 2^h, q.k - h, x % 2^h > 2^(h - 1), x % 2^h = 2^(h - 1))

RECURSIVE Log2Floor(_)
Log2Floor(n) == IF n < 2 THEN 0 ELSE 1 + Log2Floor(n \div 2)

\* f32::round of the f32 nearest to K + G / 2^d, for 0 <= K < 128 and
\* 0 <= G < 2^d: K + 1/2 is an f32, the sum reaches it when it lies within
\* half a unit in the last place below it, and halves round away from zero.
f32_sum_round(K, G, d) ==
    IF 2 * G >= 2^d THEN K + 1
    ELSE IF /\ K >= 1
            /\ d - 24 + Log2Floor(K) >= 0
            /\ 2^(d - 1) - G <= 2^(d - 24 + Log2Floor(K))
    THEN K + 1
    ELSE K

\* An interpolation that drops the fraction instead of rounding.
Interpolate_Truncate(p1_speed, speed_range, temp_offset, temp_range) ==
    (p1_speed * temp_range + speed_range * temp_offset) \div temp_range

\* (p1.speed as f32 + speed_range * (temp_offset / temp_range)).round() as u8
Interpolate(p1_speed, speed_range, temp_offset, temp_range) ==
    IF speed_range = 0 \/ temp_offset = 0 THEN p1_speed
    ELSE LET prod == f32_mul(IF speed_range < 0 THEN -speed_range ELSE speed_range,
                             f32_div(temp_offset, temp_range))
             d == prod.k
         IN  IF d >= 26 THEN p1_speed
             ELSE LET I == prod.m \div 2^d
                      F == prod.m % 2^d
                  IN  IF speed_range > 0 THEN f32_sum_round(p1_speed + I, F, d)
                      ELSE IF F > 0 THEN f32_sum_round(p1_speed - I - 1, 2^d - F, d)
                      ELSE p1_speed - I

RECURSIVE InterpolateFrom(_, _, _)
InterpolateFrom(points, temp, i) ==
    IF i > Len(points) - 1 THEN FallbackSpeed
    ELSE LET p1 == points[i]
             p2 == points[i + 1]
         IN  IF temp >= p1.temp /\ temp <= p2.temp
             THEN LET temp_range == p2.temp - p1.temp
                      speed_range == p2.speed - p1.speed
                      temp_offset == temp - p1.temp
                  IN  Interpolate(p1.speed, speed_range, temp_offset, temp_range)
             ELSE InterpolateFrom(points, temp, i + 1)

calculate_fan_speed(curve, temp) ==
    IF temp <= curve[1].temp THEN curve[1].speed
    ELSE IF temp >= curve[Len(curve)].temp THEN curve[Len(curve)].speed
    ELSE InterpolateFrom(curve, temp, 1)

\* calculate_fan_speed called on its own: the curve, the temperature and the
\* speed returned.
MaxGap == 22
MaxTemp == 170

\* The curve of test_fan_speed_calculation.
TestCurve ==
    <<Pt(40, 30), Pt(50, 40), Pt(60, 60), Pt(70, 80),
      Pt(75, 90), Pt(80, 95), Pt(85, 100), Pt(90, 100)>>

\* Curves whose points lie gap degrees apart and whose speeds alternate
\* between lo and hi, rising and falling segments alike.
SpeedInputs == {0, 11, 30, 54, 77, 90, 100}
ZigZag(gap, lo, hi) ==
    [i \in 1..NumCurvePoints |->
        Pt(10 + gap * (i - 1), IF i % 2 = 1 THEN lo ELSE hi)]
CalcCurves ==
    {c \in {DefaultCurve, PerfCurve, TestCurve}
             \cup {ZigZag(gap, lo, hi) : gap \in 1..MaxGap, lo \in SpeedInputs,
                                         hi \in SpeedInputs} :
        FanCurve_validate(c)}
CalcTemps == 0..MaxTemp

NoEval == [op |-> "none", args |-> <<>>, result |-> <<>>]
NoCalc == [curve |-> <<>>, temp |-> 0, speed |-> 0, done |-> FALSE]

Calculate(temp) ==
    /\ calc.curve # <<>>
    /\ ~calc.done
    /\ calc' = [curve |-> calc.curve, temp |-> temp,
                speed |-> calculate_fan_speed(calc.curve, temp), done |-> TRUE]
    /\ UNCHANGED <<storeVars, daemonVars, monitorVars, app_monitoring_enabled, ticks,
                   sysfs, hw, lk, eval, si>>

\* The profiles handed to the daemon and what get_system_stats returns.
DaemonProfiles ==
    {default_profile, MkProfile("Gaming", FALSE, PerfCurve, 100, 100, FALSE, <<>>)}
StatsInputs == {[cpu |-> Some(60), gpu |-> None], [cpu |-> None, gpu |-> Some(72)]}

\* A loop thread: its position, the locals of the current tick, the fan writes
\* of the current tick, and whether stop was called since it was spawned.
NoThread ==
    [pc |-> "none", stats |-> None, profile |-> None, todo |-> {}, wrote |-> {},
     stopped |-> FALSE]
NewThread == [NoThread EXCEPT !.pc = "check"]

\* Callers reach the daemon through DaemonManager's Mutex<FanDaemon>
\* (daemon_manager.rs:62-79), one call at a time; the loop threads interleave
\* with the steps of a call.
LoopIds == 1..MaxLoops
FreeSlots == {t \in LoopIds : loops[t].pc \in {"none", "exited"}}
Idle == caller = None

DaemonInit ==
    /\ running = FALSE
    /\ current_profile = None
    /\ loops = [t \in LoopIds |-> NoThread]
    /\ caller = None

\* start without its already-running check.
StartCheck_NoGuard(profile) ==
    /\ Idle
    /\ FreeSlots # {}
    /\ running' = TRUE
    /\ caller' = Some([pc |-> "store", profile |-> profile])
    /\ UNCHANGED <<last, current_profile, loops, profiles, active_profile_index, file,
                   monitorVars, restVars>>

\* start, up to the release of the running lock (fan_daemon.rs:34-39).
StartCheck(profile) ==
    /\ Idle
    /\ IF running
       THEN /\ last' = Call("start", 0, "already_running")
            /\ UNCHANGED <<running, caller>>
       ELSE /\ FreeSlots # {}
            /\ running' = TRUE
            /\ caller' = Some([pc |-> "store", profile |-> profile])
            /\ UNCHANGED last
    /\ UNCHANGED <<current_profile, loops, profiles, active_profile_index, file,
                   monitorVars, restVars>>

StartStore ==
    /\ caller # None
    /\ caller[1].pc = "store"
    /\ current_profile' = Some(caller[1].profile)
    /\ caller' = Some([caller[1] EXCEPT !.pc = "spawn"])
    /\ UNCHANGED <<running, loops, storeVars, monitorVars, restVars>>

StartSpawn ==
    /\ caller # None
    /\ caller[1].pc = "spawn"
    /\ LET t == CHOOSE x \in FreeSlots : \A y \in FreeSlots : x <= y
       IN  loops' = [loops EXCEPT ![t] = NewThread]
    /\ caller' = None
    /\ last' = Call("start", 0, "ok")
    /\ UNCHANGED <<running, current_profile, profiles, active_profile_index, file,
                   monitorVars, restVars>>

Stop ==
    /\ Idle
    /\ running' = FALSE
    /\ loops' = [t \in LoopIds |->
                    IF loops[t].pc \in {"none", "exited"} THEN loops[t]
                    ELSE [loops[t] EXCEPT !.stopped = TRUE]]
    /\ last' = Call("stop", 0, "ok")
    /\ UNCHANGED <<current_profile, caller, profiles, active_profile_index, file,
                   monitorVars, restVars>>

DaemonUpdateProfile(profile) ==
    /\ Idle
    /\ current_profile' = Some(profile)
    /\ last' = Call("daemon_update", 0, "ok")
    /\ UNCHANGED <<running, loops, caller, profiles, active_profile_index, file,
                   monitorVars, restVars>>

\* The sampling loop of thread t (fan_daemon.rs:54-92).
LoopStep(t, new) ==
    /\ loops' = [loops EXCEPT ![t] = new]
    /\ UNCHANGED <<running, current_profile, caller, storeVars, monitorVars, restVars>>

\* A loop that goes on whatever the running flag says.
LoopCheck_IgnoreFlag(t) ==
    /\ loops[t].pc = "check"
    /\ LoopStep(t, [loops[t] EXCEPT !.pc = "stats"])

LoopCheck(t) ==
    /\ loops[t].pc = "check"
    /\ IF running
       THEN LoopStep(t, [loops[t] EXCEPT !.pc = "stats"])
       ELSE LoopStep(t, [NoThread EXCEPT !.pc = "exited"])

LoopStats(t, got) ==
    /\ loops[t].pc = "stats"
    /\ IF got = None
       THEN LoopStep(t, [loops[t] EXCEPT !.pc = "sleep"])
       ELSE LoopStep(t, [loops[t] EXCEPT !.pc = "snapshot", !.stats = got])

LoopSnapshot(t) ==
    /\ loops[t].pc = "snapshot"
    /\ IF current_profile = None
       THEN LoopStep(t, [loops[t] EXCEPT !.pc = "sleep", !.stats = None])
       ELSE LoopStep(t, [loops[t] EXCEPT !.pc = "apply",
                                         !.profile = current_profile,
                                         !.todo = DOMAIN current_profile[1].fan_curves])

\* A loop that reads the shared snapshot again for every fan.
TickProfile_Reread(t) == current_profile[1]

\* The profile whose curve a fan write of thread t is computed from.
TickProfile(t) == loops[t].profile[1]

\* A loop over the fans that a failed write ends, as `?` would.
LoopApply_AbortOnError(t, fan_id, res) ==
    /\ loops[t].pc = "apply"
    /\ fan_id \in loops[t].todo
    /\ LET temp == FanTemp(fan_id, loops[t].stats[1])
           target_speed == calculate_fan_speed(TickProfile(t).fan_curves[fan_id], temp)
           rest == IF res = "ok" THEN loops[t].todo \ {fan_id} ELSE {}
       IN  LoopStep(t, [loops[t] EXCEPT
                          !.pc = IF rest = {} THEN "sleep" ELSE "apply",
                          !.todo = rest,
                          !.wrote = @ \cup {[fan |-> fan_id, speed |-> target_speed,
                                             res |-> res]}])

\* One fan of apply_fan_curves_for_temps (fan_daemon.rs:133-151); res is what
\* set_fan_speed returned, which is only printed.
LoopApply(t, fan_id, res) ==
    /\ loops[t].pc = "apply"
    /\ fan_id \in loops[t].todo
    /\ LET temp == FanTemp(fan_id, loops[t].stats[1])
           target_speed == calculate_fan_speed(TickProfile(t).fan_curves[fan_id], temp)
           rest == loops[t].todo \ {fan_id}
       IN  LoopStep(t, [loops[t] EXCEPT
                          !.pc = IF rest = {} THEN "sleep" ELSE "apply",
                          !.todo = rest,
                          !.wrote = @ \cup {[fan |-> fan_id, speed |-> target_speed,
                                             res |-> res]}])

LoopSleep(t) ==
    /\ loops[t].pc = "sleep"
    /\ LoopStep(t, [NewThread EXCEPT !.stopped = loops[t].stopped])

DaemonNext ==
    \/ \E p \in DaemonProfiles : StartCheck(p)
    \/ StartStore
    \/ StartSpawn
    \/ Stop
    \/ \E p \in DaemonProfiles : DaemonUpdateProfile(p)
    \/ \E t \in LoopIds : LoopCheck(t)
    \/ \E t \in LoopIds, got \in {None} \cup {Some(x) : x \in StatsInputs} : LoopStats(t, got)
    \/ \E t \in LoopIds : LoopSnapshot(t)
    \/ \E t \in LoopIds, f \in {"fan1", "fan2"} : LoopApply(t, f, "ok")
    \/ \E t \in LoopIds : LoopSleep(t)

\* The daemon started with the default profile, on hardware whose sensor reads
\* and fan writes may fail.
LoopNext ==
    \/ StartCheck(default_profile)
    \/ StartStore
    \/ StartSpawn
    \/ Stop
    \/ \E t \in LoopIds : LoopCheck(t)
    \/ \E t \in LoopIds, got \in {None} \cup {Some(x) : x \in StatsInputs} : LoopStats(t, got)
    \/ \E t \in LoopIds : LoopSnapshot(t)
    \/ \E t \in LoopIds, f \in {"fan1", "fan2"}, res \in {"ok", "err"} : LoopApply(t, f, res)
    \/ \E t \in LoopIds : LoopSleep(t)

(***************************************************************************)
(* ProfileController and its application-monitoring loop.                  *)
(***************************************************************************)
\* A search that does not look at auto_switch_enabled.
RECURSIVE FindFrom_IgnoreSwitch(_, _, _)
FindFrom_IgnoreSwitch(ps, app_name, i) ==
    IF i > Len(ps) THEN None
    ELSE IF \E k \in 1..Len(ps[i].trigger_apps) :
                contains(to_lowercase(app_name), to_lowercase(ps[i].trigger_apps[k]))
    THEN Some(i - 1)
    ELSE FindFrom_IgnoreSwitch(ps, app_name, i + 1)

RECURSIVE FindFrom(_, _, _)
FindFrom(ps, app_name, i) ==
    IF i > Len(ps) THEN None
    ELSE IF /\ ps[i].auto_switch_enabled
            /\ \E k \in 1..Len(ps[i].trigger_apps) :
                   contains(to_lowercase(app_name), to_lowercase(ps[i].trigger_apps[k]))
    THEN Some(i - 1)
    ELSE FindFrom(ps, app_name, i + 1)

find_profile_for_app(ps, app_name) == FindFrom(ps, app_name, 1)

\* What detect_running_apps returns on a tick.
Signals == {NOAPP, STEAM, LUTRIS}
DetectResults == {None} \cup {Some(x) : x \in Signals}

\* The stores ProfileManager::new loads from a valid profiles.json.
GamingProfile == MkProfile("Gaming", FALSE, PerfCurve, 100, 100, TRUE, <<STEAM>>)
WorkProfile ==
    MkProfile("Work", FALSE, DefaultCurve, 30, 60, TRUE, <<<<"T", "E", "A", "M">>>>)
MonitorStores ==
    {<<default_profile, GamingProfile>>,
     <<default_profile, WorkProfile, GamingProfile>>}

NoMonitor ==
    [pc |-> "none", last_detected_app |-> NOAPP, current_app |-> NOAPP,
     profile |-> None]

MonitorIds == 1..MaxMonitors
FreeMonitors == {t \in MonitorIds : monitors[t].pc \in {"none", "exited"}}

MonitorInit ==
    /\ monitoring_enabled = FALSE
    /\ monitors = [t \in MonitorIds |-> NoMonitor]
    /\ hw_applied = None

Applied(profile, by) == Some([name |-> profile.name, by |-> by])

\* An apply that clones the active profile before set_active_profile.
ControllerApplySelect_CloneBeforeSet(index) ==
    /\ Idle
    /\ LET r == set_active_profile_mem(profiles, active_profile_index, index)
       IN  /\ active_profile_index' = r.active
           /\ IF r.res = "ok"
              THEN /\ caller' = Some([pc |-> "apply_hw",
                                      profile |-> profiles[active_profile_index + 1]])
                   /\ UNCHANGED last
              ELSE /\ last' = Call("apply", index, r.res)
                   /\ UNCHANGED caller
    /\ UNCHANGED <<profiles, file, running, current_profile, loops, monitorVars, restVars>>

\* ProfileController::apply_profile up to the release of the store lock.
ControllerApplySelect(index) ==
    /\ Idle
    /\ LET r == set_active_profile_mem(profiles, active_profile_index, index)
       IN  /\ active_profile_index' = r.active
           /\ IF r.res = "ok"
              THEN /\ caller' = Some([pc |-> "apply_hw", profile |-> profiles[r.active + 1]])
                   /\ UNCHANGED last
              ELSE /\ last' = Call("apply", index, r.res)
                   /\ UNCHANGED caller
    /\ UNCHANGED <<profiles, file, running, current_profile, loops, monitorVars, restVars>>

ControllerApplyHardware ==
    /\ caller # None
    /\ caller[1].pc = "apply_hw"
    /\ hw_applied' = Applied(caller[1].profile, "controller")
    /\ caller' = None
    /\ last' = Call("apply", active_profile_index, "ok")
    /\ UNCHANGED <<profiles, active_profile_index, file, running, current_profile,
                   loops, monitoring_enabled, monitors, restVars>>

\* ProfileController::delete_profile, between two calls of the caller thread.
ControllerDelete(index) ==
    /\ Idle
    /\ DeleteProfile(index, "ok")

\* The names apply_profile_by_name is called with.
NameInputs == {"Default", "Gaming", "Work", "Movie"}

RECURSIVE PositionFrom(_, _, _)
PositionFrom(ps, name, i) ==
    IF i > Len(ps) THEN None
    ELSE IF ps[i].name = name THEN Some(i - 1)
    ELSE PositionFrom(ps, name, i + 1)

\* apply_profile_by_name: the position of the name, then apply_profile up to
\* the release of the store lock (profile_controller.rs:39-48).
ControllerApplyByName(name) ==
    /\ Idle
    /\ LET found == PositionFrom(profiles, name, 1)
       IN  IF found = None
           THEN /\ last' = Call("apply_by_name", 0, "err_not_found")
                /\ UNCHANGED <<profiles, active_profile_index, file, daemonVars,
                               monitorVars, restVars>>
           ELSE ControllerApplySelect(found[1])

\* The flag is set and the thread spawned within one call; the new thread
\* takes its first step afterwards.
StartAppMonitoring ==
    /\ Idle
    /\ IF monitoring_enabled
       THEN /\ last' = Call("start_app_monitoring", 0, "already_monitoring")
            /\ UNCHANGED <<monitoring_enabled, monitors>>
       ELSE /\ FreeMonitors # {}
            /\ monitoring_enabled' = TRUE
            /\ LET t == CHOOSE x \in FreeMonitors : \A y \in FreeMonitors : x <= y
               IN  monitors' = [monitors EXCEPT ![t] = [NoMonitor EXCEPT !.pc = "check"]]
            /\ last' = Call("start_app_monitoring", 0, "ok")
    /\ UNCHANGED <<profiles, active_profile_index, file, daemonVars, hw_applied, restVars>>

StopAppMonitoring ==
    /\ Idle
    /\ monitoring_enabled' = FALSE
    /\ last' = Call("stop_app_monitoring", 0, "ok")
    /\ UNCHANGED <<profiles, active_profile_index, file, daemonVars, monitors, hw_applied,
                   restVars>>

\* The monitoring loop of thread t (profile_controller.rs:112-143).
MonitorStep(t, new) ==
    /\ monitors' = [monitors EXCEPT ![t] = new]
    /\ UNCHANGED <<storeVars, daemonVars, monitoring_enabled, restVars>>

MonitorCheck(t) ==
    /\ monitors[t].pc = "check"
    /\ IF monitoring_enabled
       THEN MonitorStep(t, [monitors[t] EXCEPT !.pc = "detect"])
       ELSE MonitorStep(t, [NoMonitor EXCEPT !.pc = "exited"])
    /\ UNCHANGED hw_applied

MonitorDetect(t, got) ==
    /\ monitors[t].pc = "detect"
    /\ IF got # None /\ got[1] # monitors[t].last_detected_app
       THEN MonitorStep(t, [monitors[t] EXCEPT !.pc = "lookup", !.current_app = got[1]])
       ELSE MonitorStep(t, [monitors[t] EXCEPT !.pc = "sleep"])
    /\ UNCHANGED hw_applied

MonitorLookup(t) ==
    /\ monitors[t].pc = "lookup"
    /\ LET found == find_profile_for_app(profiles, monitors[t].current_app)
       IN  IF found # None
           THEN MonitorStep(t, [monitors[t] EXCEPT !.pc = "apply",
                                                   !.profile = Some(profiles[found[1] + 1])])
           ELSE MonitorStep(t, [monitors[t] EXCEPT !.pc = "sleep", !.current_app = NOAPP])
    /\ UNCHANGED hw_applied

MonitorApply(t) ==
    /\ monitors[t].pc = "apply"
    /\ hw_applied' = Applied(monitors[t].profile[1], "monitor")
    /\ MonitorStep(t, [monitors[t] EXCEPT !.pc = "sleep",
                                          !.last_detected_app = monitors[t].current_app,
                                          !.current_app = NOAPP,
                                          !.profile = None])

MonitorSleep(t) ==
    /\ monitors[t].pc = "sleep"
    /\ MonitorStep(t, [monitors[t] EXCEPT !.pc = "check"])
    /\ UNCHANGED hw_applied

(***************************************************************************)
(* One iteration of the monitoring loop taken whole                        *)
(* (profile_controller.rs:112-143), for a loop that runs alone.            *)
(***************************************************************************)
MaxTicks == 3

\* An iteration that falls back to the default profile when nothing matches.
monitor_tick_RevertToDefault(ps, last_detected_app, got) ==
    IF got = None \/ got[1] = last_detected_app
    THEN [applied |-> None, last_detected_app |-> last_detected_app]
    ELSE LET found == find_profile_for_app(ps, got[1])
         IN  IF found = None
             THEN [applied |-> Some(ps[1]), last_detected_app |-> last_detected_app]
             ELSE [applied |-> Some(ps[found[1] + 1]), last_detected_app |-> got[1]]

\* What one iteration does with the result of detect_running_apps: the profile
\* it hands to the hardware controller, if any, and last_detected_app after it.
monitor_tick(ps, last_detected_app, got) ==
    IF got = None \/ got[1] = last_detected_app
    THEN [applied |-> None, last_detected_app |-> last_detected_app]
    ELSE LET found == find_profile_for_app(ps, got[1])
         IN  IF found = None
             THEN [applied |-> None, last_detected_app |-> last_detected_app]
             ELSE [applied |-> Some(ps[found[1] + 1]), last_detected_app |-> got[1]]

\* Thread t runs one iteration, from the check of the flag to the end of the
\* sleep; ticks records what it detected and the name of what it applied.
MonitorTick(t, got) ==
    /\ monitors[t].pc = "check"
    /\ monitoring_enabled
    /\ Len(ticks) < MaxTicks
    /\ LET r == monitor_tick(profiles, monitors[t].last_detected_app, got)
       IN  /\ monitors' = [monitors EXCEPT ![t].last_detected_app = r.last_detected_app]
           /\ hw_applied' = IF r.applied = None THEN hw_applied
                            ELSE Applied(r.applied[1], "monitor")
           /\ ticks' = Append(ticks,
                              [signal |-> got,
                               applied |-> IF r.applied = None THEN None
                                           ELSE Some(r.applied[1].name)])
    /\ UNCHANGED <<storeVars, daemonVars, monitoring_enabled, app_monitoring_enabled,
                   sysfs, hw, lk, calc, eval, si>>

(***************************************************************************)
(* HardwareController (hardware_control.rs), KeyboardController            *)
(* (keyboard_control.rs) and FanDaemon::set_fan_speed (fan_daemon.rs).     *)
(* A sysfs/procfs node is absent, "rw" (present, accepts a write) or "ro"  *)
(* (present, rejects a write); an operation yields its result and the      *)
(* writes it attempted, in order.                                          *)
(***************************************************************************)
NumCores == 2

Cores == 0..(NumCores - 1)
FanNums == {1, 2}

Node(kind, n) == <<kind, n>>
KbdLed == Node("leds/rgb:kbd_backlight", 0)
KbdColor == Node("rgb:kbd_backlight/multi_intensity", 0)
KbdBrightness == Node("rgb:kbd_backlight/brightness", 0)
TuxedoIo == Node("platform/tuxedo_io", 0)
Hwmon == Node("class/hwmon", 0)
CpuInfo == Node("/proc/cpuinfo", 0)
IntelNoTurbo == Node("intel_pstate/no_turbo", 0)
AmdBoost == Node("cpufreq/boost", 0)
SmtControl == Node("smt/control", 0)
\* The temp and speed point files of fan n, taken together.
CurvePoints(n) == Node("tuxedo_io/fan{n}_temp{idx},fan{n}_speed{idx}", n)
ManualSpeed(n) == Node("tuxedo_io/fan{n}_manual_speed", n)
PwmEnable(n) == Node("hwmon/pwm{n}_enable", n)
Pwm(n) == Node("hwmon/pwm{n}", n)
Governor(cpu) == Node("cpu{cpu}/cpufreq/scaling_governor", cpu)
MinFreq(cpu) == Node("cpu{cpu}/cpufreq/scaling_min_freq", cpu)
MaxFreq(cpu) == Node("cpu{cpu}/cpufreq/scaling_max_freq", cpu)
CoreBoost(cpu) == Node("cpu{cpu}/cpufreq/boost", cpu)
\* intel_backlight, amdgpu_bl0, acpi_video0: max_brightness and brightness of
\* the i-th backlight device, taken together.
backlight_paths == [i \in 1..3 |-> Node("class/backlight", i)]

Nodes ==
    {KbdLed, KbdColor, KbdBrightness, TuxedoIo, Hwmon, CpuInfo, IntelNoTurbo,
     AmdBoost, SmtControl}
    \cup {backlight_paths[i] : i \in 1..3}
    \cup UNION {{CurvePoints(n), ManualSpeed(n), PwmEnable(n), Pwm(n)} : n \in FanNums}
    \cup UNION {{Governor(c), MinFreq(c), MaxFreq(c), CoreBoost(c)} : c \in Cores}

NodeStates == {"absent", "rw", "ro"}

exists(fs, node) == fs[node] # "absent"

Ok == [res |-> "ok", writes |-> <<>>]
Err == [res |-> "err", writes |-> <<>>]

\* fs::write(node, value)?
write_value(fs, node, value) ==
    [res |-> IF fs[node] = "rw" THEN "ok" ELSE "err",
     writes |-> <<[node |-> node, ok |-> fs[node] = "rw", value |-> value]>>]

\* A write whose content is not followed.
write(fs, node) == write_value(fs, node, "")

\* a, then b unless a failed: the `?` operator.
Then(a, b) ==
    IF a.res = "ok" THEN [res |-> b.res, writes |-> a.writes \o b.writes] ELSE a

\* for node in nodes { if node.exists() { fs::write(node, ..)?; } }
RECURSIVE WriteExisting(_, _, _)
WriteExisting(fs, nodes, i) ==
    IF i > Len(nodes) THEN Ok
    ELSE IF exists(fs, nodes[i])
    THEN Then(write(fs, nodes[i]), WriteExisting(fs, nodes, i + 1))
    ELSE WriteExisting(fs, nodes, i + 1)

\* for node in nodes { if node.exists() { fs::write(node, ..).ok(); } }
RECURSIVE WriteExistingIgnoringErrors(_, _, _, _)
WriteExistingIgnoringErrors(fs, nodes, value, i) ==
    IF i > Len(nodes) THEN Ok
    ELSE LET rest == WriteExistingIgnoringErrors(fs, nodes, value, i + 1)
         IN  IF exists(fs, nodes[i])
             THEN [res |-> "ok",
                   writes |-> write_value(fs, nodes[i], value).writes \o rest.writes]
             ELSE rest

\* str::trim_start_matches: the pattern is removed from the front as often as
\* it is there.
RECURSIVE trim_start_matches(_, _)
trim_start_matches(s, pat) ==
    IF Len(s) >= Len(pat) /\ SubSeq(s, 1, Len(pat)) = pat
    THEN trim_start_matches(SubSeq(s, Len(pat) + 1, Len(s)), pat)
    ELSE s

Digits == <<"0", "1", "2", "3", "4", "5", "6", "7", "8", "9">>
DigitValue(c) == (CHOOSE d \in 1..10 : Digits[d] = c) - 1
IsDigit(c) == \E d \in 1..10 : Digits[d] = c

RECURSIVE DecimalValue(_)
DecimalValue(s) ==
    IF s = <<>> THEN 0
    ELSE 10 * DecimalValue(SubSeq(s, 1, Len(s) - 1)) + DigitValue(s[Len(s)])

\* str::parse::<usize>: an optional "+", then digits only and at least one.
parse_usize(s) ==
    LET digits == IF s # <<>> /\ s[1] = "+" THEN Tail(s) ELSE s
    IN  IF digits # <<>> /\ \A i \in 1..Len(digits) : IsDigit(digits[i])
        THEN Some(DecimalValue(digits))
        ELSE None

\* A fan number read off the digits the identifier ends in.
parse_fan_num_TrailingDigits(fan_id) ==
    LET s == FanIdChars(fan_id)
        start == CHOOSE k \in 1..(Len(s) + 1) :
                     /\ \A i \in k..Len(s) : IsDigit(s[i])
                     /\ k = 1 \/ ~IsDigit(s[k - 1])
    IN  IF start > Len(s) THEN None ELSE Some(DecimalValue(SubSeq(s, start, Len(s))))

\* fan_id.trim_start_matches("fan").parse()
parse_fan_num(fan_id) ==
    parse_usize(trim_start_matches(FanIdChars(fan_id), <<"f", "a", "n">>))

\* KeyboardController::new succeeded iff the LED device was there.
set_color(fs) == IF exists(fs, KbdColor) THEN write(fs, KbdColor) ELSE Err

set_brightness(fs, percentage) ==
    IF percentage > 100 THEN Err ELSE write(fs, KbdBrightness)

apply_keyboard_settings(fs, profile) ==
    IF exists(fs, KbdLed)
    THEN Then(set_color(fs), set_brightness(fs, profile.keyboard_brightness))
    ELSE Ok

apply_fan_curve_tuxedo_io(fs, fan_id) ==
    IF ~exists(fs, TuxedoIo) THEN Err
    ELSE IF parse_fan_num(fan_id) = None THEN Err
    ELSE WriteExisting(fs, <<CurvePoints(parse_fan_num(fan_id)[1])>>, 1)

apply_fan_curve_hwmon(fs, fan_id) ==
    LET fan_num == unwrap_or(parse_fan_num(fan_id), 1)
    IN  IF ~exists(fs, Hwmon) THEN Err
        ELSE IF exists(fs, PwmEnable(fan_num)) /\ exists(fs, Pwm(fan_num))
        THEN Then(write(fs, PwmEnable(fan_num)), write(fs, Pwm(fan_num)))
        ELSE Err

apply_single_fan_curve(fs, fan_id) ==
    LET a == apply_fan_curve_tuxedo_io(fs, fan_id)
        b == apply_fan_curve_hwmon(fs, fan_id)
    IN  IF a.res = "ok" THEN a
        ELSE [res |-> b.res, writes |-> a.writes \o b.writes]

\* order: the order in which the HashMap yields the fans.
RECURSIVE apply_fan_curves(_, _, _)
apply_fan_curves(fs, order, i) ==
    IF i > Len(order) THEN Ok
    ELSE Then(apply_single_fan_curve(fs, order[i]), apply_fan_curves(fs, order, i + 1))

\* get_cpu_count()?: /proc/cpuinfo lists NumCores processors when it can be read.
get_cpu_count(fs) == IF exists(fs, CpuInfo) THEN Some(NumCores) ELSE None

\* The per-core nodes of one kind, cpu0 first.
PerCore(node_of, cpu_count) == [i \in 1..cpu_count |-> node_of[i - 1]]

set_cpu_governor(fs, settings) ==
    IF get_cpu_count(fs) = None THEN Err
    ELSE WriteExisting(fs, PerCore([cpu \in Cores |-> Governor(cpu)], get_cpu_count(fs)[1]), 1)

\* Per core the minimum, then the maximum, each only when the setting is Some.
FreqNode(i) == IF i % 2 = 1 THEN MinFreq((i - 1) \div 2) ELSE MaxFreq((i - 1) \div 2)

set_cpu_frequency_limits(fs, settings) ==
    IF get_cpu_count(fs) = None THEN Err
    ELSE LET all == [i \in 1..(2 * get_cpu_count(fs)[1]) |-> FreqNode(i)]
             Wanted(node) == IF node[1] = MinFreq(0)[1] THEN settings.min_freq_mhz # None
                             ELSE settings.max_freq_mhz # None
         IN  WriteExisting(fs, SelectSeq(all, Wanted), 1)

\* A set_cpu_boost that writes the Intel node with the polarity of the others.
set_cpu_boost_DirectPolarity(fs, enable) ==
    LET value == IF enable THEN "1" ELSE "0"
    IN  IF exists(fs, IntelNoTurbo) THEN write_value(fs, IntelNoTurbo, value)
        ELSE IF exists(fs, AmdBoost) THEN write_value(fs, AmdBoost, value)
        ELSE IF get_cpu_count(fs) = None THEN Err
        ELSE WriteExistingIgnoringErrors(
                 fs, PerCore([cpu \in Cores |-> CoreBoost(cpu)], get_cpu_count(fs)[1]),
                 value, 1)

\* no_turbo is inverted: "0" enables the boost there, "1" everywhere else.
set_cpu_boost(fs, enable) ==
    IF exists(fs, IntelNoTurbo)
    THEN write_value(fs, IntelNoTurbo, IF enable THEN "0" ELSE "1")
    ELSE IF exists(fs, AmdBoost)
    THEN write_value(fs, AmdBoost, IF enable THEN "1" ELSE "0")
    ELSE IF get_cpu_count(fs) = None THEN Err
    ELSE WriteExistingIgnoringErrors(
             fs, PerCore([cpu \in Cores |-> CoreBoost(cpu)], get_cpu_count(fs)[1]),
             IF enable THEN "1" ELSE "0", 1)

set_smt(fs, enable) == IF exists(fs, SmtControl) THEN write(fs, SmtControl) ELSE Ok

apply_cpu_settings(fs, settings) ==
    Then(set_cpu_governor(fs, settings),
         Then(set_cpu_frequency_limits(fs, settings),
              Then(set_cpu_boost(fs, ~settings.disable_boost),
                   set_smt(fs, settings.smt_enabled))))

\* q * (max_brightness as f32) for an integer 1 <= a < 2^17, which is an f32
\* exactly: the 24 bits of q are multiplied in two halves of 12, so that no
\* partial product passes 2^31, and the product is rounded to 24 bits.
f32_mul_wide(a, q) ==
    LET qh == q.m \div 4096
        ql == q.m % 4096
        A == qh * a + (ql * a) \div 4096
        B == (ql * a) % 4096
        h == Log2Floor(A) - 11
        top == IF h < 12 THEN A * 2^(12 - h) + B \div 2^h ELSE A \div 2^(h - 12)
        rem == IF h < 12 THEN B % 2^h ELSE (A % 2^(h - 12)) * 4096 + B
    IN  IF h = 0 THEN [m |-> A * 4096 + B, k |-> q.k]
        ELSE RoundEven(top, q.k - h, rem > 2^(h - 1), rem = 2^(h - 1))

\* `as u32` of a positive f32: the fraction is dropped.
f32_as_u32(x) ==
    IF x.k > 30 THEN 0
    ELSE IF x.k >= 0 THEN x.m \div 2^x.k
    ELSE x.m * 2^(-x.k)

\* ((brightness as f32 / 100.0) * max_brightness as f32) as u32
actual_brightness(brightness, max_brightness) ==
    IF brightness = 0 \/ max_brightness = 0 THEN 0
    ELSE f32_as_u32(f32_mul_wide(max_brightness, f32_div(brightness, 100)))

\* The first backlight device that exists is the one written, whatever comes of it.
RECURSIVE FirstBacklight(_, _)
FirstBacklight(fs, i) ==
    IF i > Len(backlight_paths) THEN Err
    ELSE IF exists(fs, backlight_paths[i]) THEN write(fs, backlight_paths[i])
    ELSE FirstBacklight(fs, i + 1)

apply_screen_brightness(fs, brightness) == FirstBacklight(fs, 1)

\* FanDaemon::set_fan_speed (fan_daemon.rs:191-230).
set_fan_speed(fs, fan_id) ==
    LET fan_num == unwrap_or(parse_fan_num(fan_id), 1)
    IN  IF exists(fs, TuxedoIo) /\ exists(fs, ManualSpeed(fan_num))
        THEN write(fs, ManualSpeed(fan_num))
        ELSE IF exists(fs, Hwmon) /\ exists(fs, Pwm(fan_num))
        THEN write(fs, Pwm(fan_num))
        ELSE Err

\* Profile.cpu_settings, which the profiles of the store model leave out.
CpuSettingsInputs ==
    {[performance_profile |-> "Balanced", min_freq_mhz |-> None, max_freq_mhz |-> None,
      disable_boost |-> FALSE, smt_enabled |-> TRUE],
     [performance_profile |-> "PowerSave", min_freq_mhz |-> Some(800),
      max_freq_mhz |-> Some(2000), disable_boost |-> TRUE, smt_enabled |-> FALSE]}

FanOrders(profile) ==
    LET ids == DOMAIN profile.fan_curves
    IN  {o \in [1..Cardinality(ids) -> ids] : \A i, j \in DOMAIN o : i # j => o[i] # o[j]}

Categories == <<"keyboard", "fan_curves", "cpu_settings", "screen_brightness">>

NoCall ==
    [call |-> "none", pc |-> "idle", profile |-> None, cpu_settings |-> None,
     fan_id |-> None, writes |-> <<>>, results |-> <<>>, ret |-> None]

\* apply_profile that gives up at the first category that fails.
AfterCategory_Propagate(res, next) == IF res = "ok" THEN next ELSE "return"

\* `if let Err(e) = .. { eprintln!(..) }`: whatever the result, go on.
AfterCategory(res, next) == next

\* What apply_profile returns (hardware_control.rs:53).
ApplyResult(results) == "ok"

HwStep(new) ==
    /\ hw' = new
    /\ UNCHANGED <<storeVars, daemonVars, monitorVars, app_monitoring_enabled, ticks,
                   sysfs, lk, calc, eval, si>>

HwCategory(category, r, next) ==
    /\ hw.pc = category
    /\ HwStep([hw EXCEPT !.writes = @ \o r.writes,
                         !.results = Append(@, [category |-> category, res |-> r.res]),
                         !.pc = AfterCategory(r.res, next)])

HwApplyProfile(profile, settings) ==
    /\ hw.pc \in {"idle", "done"}
    /\ HwStep([NoCall EXCEPT !.call = "apply_profile", !.pc = "keyboard",
                             !.profile = Some(profile), !.cpu_settings = Some(settings)])

HwKeyboard ==
    /\ hw.pc = "keyboard"
    /\ HwCategory("keyboard", apply_keyboard_settings(sysfs, hw.profile[1]), "fan_curves")

HwFanCurves ==
    /\ hw.pc = "fan_curves"
    /\ \E order \in FanOrders(hw.profile[1]) :
           HwCategory("fan_curves", apply_fan_curves(sysfs, order, 1), "cpu_settings")

HwCpuSettings ==
    /\ hw.pc = "cpu_settings"
    /\ HwCategory("cpu_settings", apply_cpu_settings(sysfs, hw.cpu_settings[1]),
                  "screen_brightness")

HwScreenBrightness ==
    /\ hw.pc = "screen_brightness"
    /\ HwCategory("screen_brightness",
                  apply_screen_brightness(sysfs, hw.profile[1].screen_brightness), "return")

HwReturn ==
    /\ hw.pc = "return"
    /\ HwStep([hw EXCEPT !.pc = "done", !.ret = Some(ApplyResult(hw.results))])

HwSetFanSpeed(fan_id) ==
    /\ hw.pc \in {"idle", "done"}
    /\ LET r == set_fan_speed(sysfs, fan_id)
       IN  HwStep([NoCall EXCEPT !.call = "set_fan_speed", !.pc = "done",
                                 !.fan_id = Some(fan_id),
                                 !.writes = r.writes, !.ret = Some(r.res)])

\* The environments: every node accepting, but for at most two of them.
AllRw == [n \in Nodes |-> "rw"]
SysfsInputs ==
    {[AllRw EXCEPT ![n1] = v1, ![n2] = v2] :
        n1 \in Nodes, n2 \in Nodes, v1 \in NodeStates, v2 \in NodeStates}
HwProfiles == DaemonProfiles

(***************************************************************************)
(* The Mutexes: for each thread the locks, unlocks and sysfs/procfs         *)
(* accesses of its code in program order.  A lock is taken when no thread  *)
(* holds it; an access begins and ends in separate steps.                  *)
(***************************************************************************)
Lock(m) == <<"lock", m>>
Unlock(m) == <<"unlock", m>>
Io(what) == <<"io", what>>

\* The sampling loop (fan_daemon.rs:54-92).
FanLoopProgram ==
    <<Lock("running"), Unlock("running"),
      Lock("monitor"), Io("get_system_stats"), Unlock("monitor"),
      Lock("current_profile"), Unlock("current_profile"),
      Io("set_fan_speed")>>

\* The monitoring loop (profile_controller.rs:112-143).
AppMonitorProgram ==
    <<Lock("monitoring_enabled"), Unlock("monitoring_enabled"),
      Io("detect_running_apps"),
      Lock("profile_manager"), Unlock("profile_manager"),
      Io("apply_profile")>>

\* ProfileController::apply_profile (profile_controller.rs:29-36).
ControllerApplyProgram ==
    <<Lock("profile_manager"), Unlock("profile_manager"), Io("apply_profile")>>

\* DaemonManager::apply_profile keeping the controller locked until it returns.
ManagerApplyProgram_NoDrop ==
    <<Lock("profile_controller"),
      Lock("profile_manager"), Unlock("profile_manager"), Io("apply_profile"),
      Lock("profile_manager"), Unlock("profile_manager"),
      Lock("fan_daemon"), Lock("current_profile"), Unlock("current_profile"),
      Unlock("fan_daemon"),
      Lock("app_monitoring_enabled"), Unlock("app_monitoring_enabled")>>

\* DaemonManager::apply_profile (daemon_manager.rs:119-131).
ManagerApplyProgram ==
    <<Lock("profile_controller")>> \o ControllerApplyProgram \o
    <<Lock("profile_manager"), Unlock("profile_manager"), Unlock("profile_controller"),
      Lock("fan_daemon"), Lock("current_profile"), Unlock("current_profile"),
      Unlock("fan_daemon"),
      Lock("app_monitoring_enabled"), Unlock("app_monitoring_enabled")>>

\* The apply button (ui/profile_page.rs:185-198).
ApplyButtonProgram ==
    <<Lock("profile_controller")>> \o ControllerApplyProgram \o
    <<Unlock("profile_controller")>>

\* DaemonManager::start_fan_daemon (daemon_manager.rs:62-67, fan_daemon.rs:33-42).
ManagerStartProgram ==
    <<Lock("fan_daemon"), Lock("running"), Unlock("running"),
      Lock("current_profile"), Unlock("current_profile"), Unlock("fan_daemon")>>

\* DaemonManager::start_app_monitoring (daemon_manager.rs:82-94,
\* profile_controller.rs:97-103).
ManagerStartAppProgram ==
    <<Lock("app_monitoring_enabled"), Unlock("app_monitoring_enabled"),
      Lock("profile_controller"),
      Lock("monitoring_enabled"), Unlock("monitoring_enabled"),
      Unlock("profile_controller")>>

\* DaemonManager::stop_app_monitoring (daemon_manager.rs:97-105,
\* profile_controller.rs:151-154).
ManagerStopAppProgram ==
    <<Lock("app_monitoring_enabled"), Unlock("app_monitoring_enabled"),
      Lock("profile_controller"),
      Lock("monitoring_enabled"), Unlock("monitoring_enabled"),
      Unlock("profile_controller")>>

\* DaemonManager::stop_fan_daemon (daemon_manager.rs:70-73, fan_daemon.rs:101-105).
ManagerStopFanProgram ==
    <<Lock("fan_daemon"), Lock("running"), Unlock("running"), Unlock("fan_daemon")>>

\* DaemonManager::start_all with a profile that switches automatically
\* (daemon_manager.rs:27-46).
ManagerStartAllProgram ==
    <<Lock("profile_controller"), Lock("profile_manager"), Unlock("profile_manager"),
      Unlock("profile_controller")>> \o ManagerStartProgram \o ManagerStartAppProgram

\* DaemonManager::stop_all (daemon_manager.rs:49-60).
ManagerStopAllProgram == ManagerStopFanProgram \o ManagerStopAppProgram

\* DaemonManager::get_status (daemon_manager.rs:144-153).
ManagerGetStatusProgram ==
    <<Lock("fan_daemon"), Lock("running"), Unlock("running"), Unlock("fan_daemon"),
      Lock("app_monitoring_enabled"), Unlock("app_monitoring_enabled"),
      Lock("profile_controller"), Lock("profile_manager"), Unlock("profile_manager"),
      Unlock("profile_controller")>>

\* DaemonManager::apply_profile going on to start or to stop the monitoring
\* (daemon_manager.rs:130-138).
ManagerApplyStartProgram == ManagerApplyProgram \o ManagerStartAppProgram
ManagerApplyStopProgram == ManagerApplyProgram \o ManagerStopAppProgram

\* ProfileController::add_profile, update_profile and delete_profile: the store
\* is written to its file under the lock (profile_controller.rs:63-78,
\* profile_system.rs:219-228).
StoreOpProgram ==
    <<Lock("profile_manager"), Io("save_profiles"), Unlock("profile_manager")>>

\* The callers of DaemonManager hold its Mutex for the call (main.rs:117-122,
\* 277-280, ui/settings_page.rs:166-168).
WithManager(program) ==
    <<Lock("daemon_manager")>> \o program \o <<Unlock("daemon_manager")>>

CallerOps ==
    {"controller_apply", "manager_apply", "apply_button", "manager_start",
     "manager_start_app", "manager_stop_app", "manager_stop_fan", "manager_start_all",
     "manager_stop_all", "manager_get_status", "manager_apply_start",
     "manager_apply_stop", "store_op"}
Threads == {"fan_loop", "app_monitor", "caller"}

Program(prog) ==
    CASE prog = "fan_loop" -> FanLoopProgram
      [] prog = "app_monitor" -> AppMonitorProgram
      [] prog = "controller_apply" -> ControllerApplyProgram
      [] prog = "manager_apply" -> WithManager(ManagerApplyProgram)
      [] prog = "apply_button" -> ApplyButtonProgram
      [] prog = "manager_start" -> WithManager(ManagerStartProgram)
      [] prog = "manager_start_app" -> WithManager(ManagerStartAppProgram)
      [] prog = "manager_stop_app" -> WithManager(ManagerStopAppProgram)
      [] prog = "manager_stop_fan" -> WithManager(ManagerStopFanProgram)
      [] prog = "manager_start_all" -> WithManager(ManagerStartAllProgram)
      [] prog = "manager_stop_all" -> WithManager(ManagerStopAllProgram)
      [] prog = "manager_get_status" -> WithManager(ManagerGetStatusProgram)
      [] prog = "manager_apply_start" -> WithManager(ManagerApplyStartProgram)
      [] prog = "manager_apply_stop" -> WithManager(ManagerApplyStopProgram)
      [] prog = "store_op" -> StoreOpProgram
      [] OTHER -> <<>>

LockIdle ==
    [th \in Threads |->
        [prog |-> IF th = "caller" THEN "idle" ELSE th, pc |-> 1, held |-> {},
         io |-> "none"]]

AtEnd(th) == lk[th].pc > Len(Program(lk[th].prog))
Instr(th) == Program(lk[th].prog)[lk[th].pc]
HeldByAny(m) == \E th \in Threads : m \in lk[th].held

LockStep(th, new) ==
    /\ lk' = [lk EXCEPT ![th] = new]
    /\ UNCHANGED <<storeVars, daemonVars, monitorVars, app_monitoring_enabled, ticks,
                   sysfs, hw, calc, eval, si>>

LockAcquire(th) ==
    /\ ~AtEnd(th)
    /\ Instr(th)[1] = "lock"
    /\ ~HeldByAny(Instr(th)[2])
    /\ LockStep(th, [lk[th] EXCEPT !.held = @ \cup {Instr(th)[2]}, !.pc = @ + 1])

LockRelease(th) ==
    /\ ~AtEnd(th)
    /\ Instr(th)[1] = "unlock"
    /\ LockStep(th, [lk[th] EXCEPT !.held = @ \ {Instr(th)[2]}, !.pc = @ + 1])

IoBegin(th) ==
    /\ ~AtEnd(th)
    /\ Instr(th)[1] = "io"
    /\ lk[th].io = "none"
    /\ LockStep(th, [lk[th] EXCEPT !.io = Instr(th)[2]])

IoEnd(th) ==
    /\ lk[th].io # "none"
    /\ LockStep(th, [lk[th] EXCEPT !.io = "none", !.pc = @ + 1])

\* thread::sleep and the next iteration of a loop.
NextIteration(th) ==
    /\ th # "caller"
    /\ AtEnd(th)
    /\ LockStep(th, [lk[th] EXCEPT !.pc = 1])

CallerCall(op) ==
    /\ lk["caller"].prog = "idle"
    /\ LockStep("caller", [lk["caller"] EXCEPT !.prog = op, !.pc = 1])

CallerReturn ==
    /\ lk["caller"].prog # "idle"
    /\ AtEnd("caller")
    /\ LockStep("caller", [lk["caller"] EXCEPT !.prog = "idle", !.pc = 1])

(***************************************************************************)
(* DaemonManager (daemon_manager.rs): the fan daemon and the application   *)
(* monitoring driven together with the profile controller.                 *)
(***************************************************************************)
\* start_all and the fan daemon switch of the settings page hand the active
\* profile of the store to FanDaemon::start (daemon_manager.rs:31-37,
\* settings_page.rs:186-203).
ManagerStartFanDaemon ==
    /\ Idle
    /\ active_profile_index < Len(profiles)  \* get_active_profile panics otherwise
    /\ StartCheck(profiles[active_profile_index + 1])

\* DaemonManager::apply_profile up to the store update of
\* ProfileController::apply_profile (daemon_manager.rs:121-122).
ManagerApplySelect(index) ==
    /\ Idle
    /\ LET r == set_active_profile_mem(profiles, active_profile_index, index)
       IN  /\ active_profile_index' = r.active
           /\ IF r.res = "ok"
              THEN /\ caller' = Some([pc |-> "mgr_apply_hw", profile |-> profiles[r.active + 1]])
                   /\ UNCHANGED last
              ELSE /\ last' = Call("manager_apply", index, r.res)
                   /\ UNCHANGED caller
    /\ UNCHANGED <<profiles, file, running, current_profile, loops, monitorVars, restVars>>

\* The hardware apply of the controller, then get_active_profile
\* (profile_controller.rs:35, daemon_manager.rs:123-124).
ManagerApplyHardware ==
    /\ caller # None
    /\ caller[1].pc = "mgr_apply_hw"
    /\ hw_applied' = Applied(caller[1].profile, "manager")
    /\ caller' = Some([pc |-> "mgr_update", profile |-> profiles[active_profile_index + 1]])
    /\ UNCHANGED <<last, profiles, active_profile_index, file, running, current_profile,
                   loops, monitoring_enabled, monitors, restVars>>

\* update_fan_daemon_profile (daemon_manager.rs:127, 76-79).
ManagerUpdateDaemon ==
    /\ caller # None
    /\ caller[1].pc = "mgr_update"
    /\ current_profile' = Some(caller[1].profile)
    /\ caller' = Some([caller[1] EXCEPT !.pc = "mgr_sync"])
    /\ UNCHANGED <<last, running, loops, profiles, active_profile_index, file,
                   monitorVars, restVars>>

\* The application monitoring follows auto_switch_enabled of the applied
\* profile (daemon_manager.rs:130-140, 82-105).
ManagerSyncMonitoring ==
    /\ caller # None
    /\ caller[1].pc = "mgr_sync"
    /\ IF caller[1].profile.auto_switch_enabled
       THEN IF ~app_monitoring_enabled
            THEN /\ app_monitoring_enabled' = TRUE
                 /\ IF monitoring_enabled
                    THEN UNCHANGED <<monitoring_enabled, monitors>>
                    ELSE /\ FreeMonitors # {}
                         /\ monitoring_enabled' = TRUE
                         /\ LET t == CHOOSE x \in FreeMonitors : \A y \in FreeMonitors : x <= y
                            IN  monitors' = [monitors EXCEPT
                                               ![t] = [NoMonitor EXCEPT !.pc = "check"]]
            ELSE UNCHANGED <<app_monitoring_enabled, monitoring_enabled, monitors>>
       ELSE IF app_monitoring_enabled
            THEN /\ app_monitoring_enabled' = FALSE
                 /\ monitoring_enabled' = FALSE
                 /\ UNCHANGED monitors
            ELSE UNCHANGED <<app_monitoring_enabled, monitoring_enabled, monitors>>
    /\ caller' = None
    /\ last' = Call("manager_apply", active_profile_index, "ok")
    /\ UNCHANGED <<profiles, active_profile_index, file, running, current_profile, loops,
                   hw_applied, ticks, sysfs, hw, lk, calc, eval, si>>

\* DaemonManager::start_app_monitoring: the manager's own flag decides, then
\* the controller is asked (daemon_manager.rs:82-94).
ManagerStartAppMonitoring ==
    /\ Idle
    /\ IF app_monitoring_enabled
       THEN UNCHANGED <<app_monitoring_enabled, monitoring_enabled, monitors>>
       ELSE /\ app_monitoring_enabled' = TRUE
            /\ IF monitoring_enabled
               THEN UNCHANGED <<monitoring_enabled, monitors>>
               ELSE /\ FreeMonitors # {}
                    /\ monitoring_enabled' = TRUE
                    /\ LET t == CHOOSE x \in FreeMonitors : \A y \in FreeMonitors : x <= y
                       IN  monitors' = [monitors EXCEPT
                                          ![t] = [NoMonitor EXCEPT !.pc = "check"]]
    /\ last' = Call("manager_start_app_monitoring", 0, "ok")
    /\ UNCHANGED <<caller, profiles, active_profile_index, file, running, current_profile,
                   loops, hw_applied, ticks, sysfs, hw, lk, calc, eval, si>>

\* DaemonManager::stop_app_monitoring clears both flags
\* (daemon_manager.rs:97-105).
ManagerStopAppMonitoring ==
    /\ Idle
    /\ app_monitoring_enabled' = FALSE
    /\ monitoring_enabled' = FALSE
    /\ last' = Call("manager_stop_app_monitoring", 0, "ok")
    /\ UNCHANGED <<caller, monitors, profiles, active_profile_index, file, running,
                   current_profile, loops, hw_applied, ticks, sysfs, hw, lk, calc, eval, si>>

(***************************************************************************)
(* Functions taken alone: one call, its arguments and what it returns.     *)
(***************************************************************************)
EvalStep(op, args, result) ==
    /\ eval' = [op |-> op, args |-> args, result |-> result]
    /\ UNCHANGED <<storeVars, daemonVars, monitorVars, app_monitoring_enabled, ticks,
                   sysfs, hw, lk, calc, si>>

\* The curves handed to FanCurve::validate: the default curve with one point
\* replaced, cut short, or with a ninth point.
PointInputs ==
    {Pt(t, sp) : t \in {0, 40, 62, 65, 70, 255}, sp \in {0, 100, 101, 255}}
CurveInputs ==
    {[DefaultCurve EXCEPT ![i] = pt] : i \in 1..NumCurvePoints, pt \in PointInputs}
        \cup {SubSeq(DefaultCurve, 1, n) : n \in 0..NumCurvePoints}
        \cup {Append(DefaultCurve, pt) : pt \in PointInputs}

Validate ==
    /\ eval.op = "none"
    /\ \E curve \in CurveInputs :
           EvalStep("validate", <<curve>>,
                    IF FanCurve_validate(curve) THEN "ok" ELSE "err")

\* HardwareMonitor::calculate_cpu_load.  The counters are u64; the samples of
\* the model are small, so the sums do not overflow.  The f32 result is kept as
\* the fraction num / den of its exact value.  total_diff - idle_diff is a u64
\* subtraction: when idle_diff is the larger, a build with overflow checks
\* panics, and one without wraps to a number near 2^64, whose quotient by
\* total_diff is far above 1 and is cut to 100.0 by min.
MaxJiffies == 2

CpuStats(user, system, idle, iowait) ==
    [user |-> user, nice |-> 0, system |-> system, idle |-> idle, iowait |-> iowait,
     irq |-> 0, softirq |-> 0]
CpuStatsInputs ==
    {CpuStats(u, sy, id, io) : u \in 0..MaxJiffies, sy \in 0..MaxJiffies,
                               id \in 0..MaxJiffies, io \in 0..MaxJiffies}

saturating_sub(a, b) == IF a >= b THEN a - b ELSE 0

Percent(num, den) == [kind |-> "value", num |-> num, den |-> den]
Panic == [kind |-> "panic", num |-> 0, den |-> 1]

calculate_cpu_load(prev, curr, overflow_checks) ==
    LET prev_idle == prev.idle + prev.iowait
        curr_idle == curr.idle + curr.iowait
        prev_total == prev.user + prev.nice + prev.system + prev_idle
                      + prev.irq + prev.softirq
        curr_total == curr.user + curr.nice + curr.system + curr_idle
                      + curr.irq + curr.softirq
        total_diff == saturating_sub(curr_total, prev_total)
        idle_diff == saturating_sub(curr_idle, prev_idle)
    IN  IF total_diff = 0 THEN Percent(0, 1)
        ELSE IF idle_diff > total_diff
        THEN IF overflow_checks THEN Panic ELSE Percent(100, 1)
        ELSE Percent(100 * (total_diff - idle_diff), total_diff)

CpuLoad ==
    /\ eval.op = "none"
    /\ \E prev \in CpuStatsInputs, curr \in CpuStatsInputs, overflow_checks \in BOOLEAN :
           EvalStep("calculate_cpu_load", <<prev, curr>>,
                    calculate_cpu_load(prev, curr, overflow_checks))

\* HardwareMonitor::get_system_stats.  Each sensor source is readable ("ok"),
\* absent ("missing") or present and unreadable ("unreadable").  A reader
\* yields a value or an error; the ? operator hands an error to the caller.
SourceStates == {"ok", "missing", "unreadable"}
SensorEnvs ==
    [cpuinfo : SourceStates, stat : SourceStates, hwmon : SourceStates, drm : SourceStates]

Value(v) == [kind |-> "ok", value |-> v]
Failure(source) == [kind |-> "err", value |-> source]

\* HardwareMonitor::get_cpu_count: fs::read_to_string("/proc/cpuinfo")? ; one
\* processor line when it reads.
HardwareMonitor_get_cpu_count(env) ==
    IF env.cpuinfo = "ok" THEN Value(1) ELSE Failure("cpuinfo")

\* fs::read_to_string("/proc/stat")? ; one cpuN line when it reads.
read_cpu_stats(env) ==
    IF env.stat = "ok" THEN Value(<<CpuStats(1, 1, 1, 0)>>) ELSE Failure("stat")

\* The name and temp*_input reads are "if let Ok": a node that does not read
\* is passed over.
get_package_temperature(env) ==
    Value(IF env.hwmon = "ok" THEN Some(60) ELSE None)

get_cpu_info(env) ==
    LET cpu_count == HardwareMonitor_get_cpu_count(env)
        current_stats == read_cpu_stats(env)
        package_temp == get_package_temperature(env)
    IN  IF cpu_count.kind = "err" THEN cpu_count
        ELSE IF current_stats.kind = "err" THEN current_stats
        ELSE IF package_temp.kind = "err" THEN package_temp
        ELSE Value([cores |-> cpu_count.value, package_temp |-> package_temp.value])

\* detect_amd_gpus: no /sys/class/drm gives no GPU; fs::read_dir(drm_path)?
\* on a directory that cannot be listed is an error.
get_gpu_info(env) ==
    CASE env.drm = "missing" -> Value(<<>>)
      [] env.drm = "unreadable" -> Failure("drm")
      [] OTHER -> Value(<<[temperature |-> Some(72)]>>)

get_system_stats(env) ==
    LET cpu == get_cpu_info(env)
        gpus == get_gpu_info(env)
    IN  IF cpu.kind = "err" THEN cpu
        ELSE IF gpus.kind = "err" THEN gpus
        ELSE Value([cpu |-> cpu.value, gpus |-> gpus.value])

GetSystemStats ==
    /\ eval.op = "none"
    /\ \E env \in SensorEnvs :
           EvalStep("get_system_stats", <<env>>, get_system_stats(env))

\* set_backlight_brightness: the percentage of a profile, the max_brightness
\* the device reports, and the raw value written.
MaxRawBrightness == 15
PercentInputs == 0..100
MaxBrightnessInputs == 0..MaxRawBrightness \cup {100, 255, 7500, 96000, 120000}

SetBacklightBrightness ==
    /\ eval.op = "none"
    /\ \E brightness \in PercentInputs, max_brightness \in MaxBrightnessInputs :
           EvalStep("set_backlight_brightness", <<brightness, max_brightness>>,
                    actual_brightness(brightness, max_brightness))

\* The temperature chosen for a fan in a tick: the identifier, the package
\* temperature and the GPUs of the snapshot.
FanIdInputs ==
    {"fan1", "fan2", "fan3", "fan0", "fan", "fanfan2",
     "cpu_fan", "gpu_fan2", "cpugpu", "rear2", "fan2b", "fan+2"}
TempInputs == {None, Some(45), Some(50), Some(60), Some(72)}
GpuInputs ==
    {<<>>} \cup {<<[temperature |-> a]>> : a \in TempInputs}
           \cup {<<[temperature |-> a], [temperature |-> b]>> : a \in TempInputs, b \in TempInputs}

ChooseFanTemp ==
    /\ eval.op = "none"
    /\ \E fan_id \in FanIdInputs, package_temp \in TempInputs, gpus \in GpuInputs :
           EvalStep("fan_temp", <<fan_id, package_temp, gpus>>,
                    FanTemp(fan_id, [cpu |-> package_temp,
                                     gpu |-> first_gpu_temperature(gpus)]))

\* The fan number FanDaemon::set_fan_speed writes to.
FanNumber ==
    /\ eval.op = "none"
    /\ \E fan_id \in FanIdInputs :
           EvalStep("fan_num", <<fan_id>>, unwrap_or(parse_fan_num(fan_id), 1))

\* KeyboardController::set_brightness and get_brightness on the brightness
\* node, whose content is the decimal text of the raw value.
RECURSIVE to_string(_)
to_string(n) ==
    IF n < 10 THEN <<Digits[n + 1]>>
    ELSE Append(to_string(n \div 10), Digits[(n % 10) + 1])

\* `as u8` of a value that is not negative: what is above 255 becomes 255.
as_u8(n) == IF n > 255 THEN 255 ELSE n

\* ((percentage as f32 / 100.0) * self.max_brightness as f32) as u8
raw_value(percentage, max_brightness) ==
    as_u8(actual_brightness(percentage, max_brightness))

\* ((raw_brightness as f32 / self.max_brightness as f32) * 100.0) as u8, then
\* min(100); a raw value at or above the maximum gives a quotient of at least 1.
percentage_of(raw_brightness, max_brightness) ==
    IF max_brightness = 0 \/ raw_brightness = 0 THEN 0
    ELSE IF raw_brightness >= max_brightness THEN 100
    ELSE LET pct == as_u8(f32_as_u32(f32_mul(100, f32_div(raw_brightness, max_brightness))))
         IN  IF pct > 100 THEN 100 ELSE pct

\* The result and the content of the node after set_brightness.
KeyboardController_set_brightness(content, percentage, max_brightness) ==
    IF percentage > 100 THEN [res |-> "err", content |-> content]
    ELSE [res |-> "ok", content |-> to_string(raw_value(percentage, max_brightness))]

get_brightness(content, max_brightness) ==
    LET raw_brightness == parse_usize(content)
    IN  IF raw_brightness = None \/ raw_brightness[1] > 255 THEN None
        ELSE Some(percentage_of(raw_brightness[1], max_brightness))

\* The node as create_mock_keyboard_sysfs leaves it, and the controllers.
MockBrightness == <<"1", "2", "8">>
PercentageInputs == PercentInputs \cup {101, 200, 255}
KeyboardMaxInputs == {100, 255}

SetThenGetBrightness ==
    /\ eval.op = "none"
    /\ \E percentage \in PercentageInputs, max_brightness \in KeyboardMaxInputs :
           LET set == KeyboardController_set_brightness(MockBrightness, percentage,
                                                        max_brightness)
           IN  EvalStep("set_get_brightness", <<percentage, max_brightness>>,
                        [set |-> set.res, content |-> set.content,
                         get |-> get_brightness(set.content, max_brightness)])

\* find_profile_for_app on its own: the profiles of the store and the signal.
TriggerInputs ==
    {<<>>, <<STEAM>>, <<<<"T", "E", "A", "M">>>>, <<LUTRIS, <<"S", "t", "e", "a", "m">>>>,
     <<NOAPP>>}
FindProfiles ==
    {MkProfile("P", FALSE, DefaultCurve, 50, 70, auto, triggers) :
        auto \in BOOLEAN, triggers \in TriggerInputs}
FindStores == UNION {[1..n -> FindProfiles] : n \in 0..MaxProfiles}
FindSignals == {NOAPP, STEAM, LUTRIS, <<"S", "T", "e", "a", "m">>, <<"t", "e", "a">>}

FindProfileForApp ==
    /\ eval.op = "none"
    /\ \E ps \in FindStores, app_name \in FindSignals :
           EvalStep("find_profile_for_app", <<ps, app_name>>,
                    find_profile_for_app(ps, app_name))

(***************************************************************************)
(* SingleInstance (single_instance.rs).  Every instance is a process of its *)
(* own, whose PID is its number; it runs try_acquire, a sequence of file    *)
(* system calls that other processes interleave with.  The path names a     *)
(* file; a process that opened the file keeps it, also after the path was   *)
(* removed.  A file holds the PID written to it, or nothing yet.            *)
(***************************************************************************)
NumInstances == 3
Instances == 1..NumInstances

NoInstances ==
    [path |-> None,
     content |-> [f \in Instances |-> None],
     inst |-> [i \in Instances |-> [pc |-> "new", _lock_file |-> None, alive |-> TRUE]]]

SiStep(new) ==
    /\ si' = new
    /\ UNCHANGED <<storeVars, daemonVars, monitorVars, app_monitoring_enabled, ticks,
                   sysfs, hw, lk, calc, eval>>

\* PathBuf::from(format!("/proc/{}", pid)).exists()
is_process_running(pid) == si.inst[pid].alive

\* No lock file, or one whose text is no PID, or the PID of a process that is
\* gone: not running.
is_running ==
    IF si.path = None THEN FALSE
    ELSE LET contents == si.content[si.path[1]]
         IN  IF contents = None THEN FALSE ELSE is_process_running(contents[1])

\* if self.is_running() { return Ok(false); }
TryAcquireCheck(i) ==
    /\ si.inst[i].pc \in {"new", "refused"}
    /\ SiStep([si EXCEPT !.inst[i].pc = IF is_running THEN "refused" ELSE "checked"])

\* let _ = fs::remove_file(&self.lock_file_path);
TryAcquireRemove(i) ==
    /\ si.inst[i].pc = "checked"
    /\ SiStep([si EXCEPT !.path = None, !.inst[i].pc = "removed"])

\* OpenOptions::new().write(true).create(true).truncate(true).open(..): the
\* file at the path, emptied, or a new file when there is none.
TryAcquireOpen(i) ==
    /\ si.inst[i].pc = "removed"
    /\ LET f == IF si.path = None THEN i ELSE si.path[1]
       IN  SiStep([si EXCEPT !.path = Some(f), !.content[f] = None,
                             !.inst[i].pc = "opened", !.inst[i]._lock_file = Some(f)])

\* writeln!(file, "{}", pid); self._lock_file = Some(file); Ok(true)
TryAcquireWrite(i) ==
    /\ si.inst[i].pc = "opened"
    /\ SiStep([si EXCEPT !.content[si.inst[i]._lock_file[1]] = Some(i),
                         !.inst[i].pc = "acquired"])

\* release(), called directly or by drop: self._lock_file = None, then
\* fs::remove_file(&self.lock_file_path) whether or not the lock was acquired.
Release(i) ==
    /\ si.inst[i].pc \in {"acquired", "refused"}
    /\ SiStep([si EXCEPT !.path = None,
                         !.inst[i].pc = "released", !.inst[i]._lock_file = None])

\* The process ends after its instance was dropped.
Exit(i) ==
    /\ si.inst[i].pc = "released"
    /\ si.inst[i].alive
    /\ SiStep([si EXCEPT !.inst[i].alive = FALSE])

(***************************************************************************)
(* Specifications.                                                         *)
(***************************************************************************)
\* Nothing outside the store, the daemon and the monitor has run.
RestInit ==
    /\ app_monitoring_enabled = FALSE
    /\ ticks = <<>>
    /\ sysfs = AllRw
    /\ hw = NoCall
    /\ lk = LockIdle
    /\ calc = NoCalc
    /\ eval = NoEval
    /\ si = NoInstances

MonitorStoreInit ==
    /\ profiles \in MonitorStores
    /\ active_profile_index = 0
    /\ file = to_string_pretty(profiles)
    /\ last = Call("new", 0, "ok")

MonitorSpecInit == MonitorStoreInit /\ DaemonInit /\ MonitorInit /\ RestInit

MonitorNext ==
    \/ \E i \in Indexes : ControllerApplySelect(i)
    \/ ControllerApplyHardware
    \/ StartAppMonitoring
    \/ StopAppMonitoring
    \/ \E t \in MonitorIds : MonitorCheck(t)
    \/ \E t \in MonitorIds, got \in DetectResults : MonitorDetect(t, got)
    \/ \E t \in MonitorIds : MonitorLookup(t)
    \/ \E t \in MonitorIds : MonitorApply(t)
    \/ \E t \in MonitorIds : MonitorSleep(t)

MonitorSpec == MonitorSpecInit /\ [][MonitorNext]_vars

Init == StoreInit /\ DaemonInit /\ MonitorInit /\ RestInit

Next ==
    \/ \E p \in ProfileInputs, io \in IoOutcomes : AddProfile(p, io)
    \/ \E i \in Indexes, p \in ProfileInputs, io \in IoOutcomes : UpdateProfile(i, p, io)
    \/ \E i \in Indexes, io \in IoOutcomes : DeleteProfile(i, io)
    \/ \E i \in Indexes : SetActiveProfile(i)

Spec == Init /\ [][Next]_vars

DaemonSpec == Init /\ [][DaemonNext]_vars

LoopSpec == Init /\ [][LoopNext]_vars

\* The application as main.rs wires it: the daemon started with the active
\* profile, profiles applied from the profile page (ProfileController) and
\* through DaemonManager, application monitoring, and the sampling loop.
\* calculate_fan_speed on validated curves at integer temperatures.
CalcInit ==
    /\ StoreInit
    /\ DaemonInit
    /\ MonitorInit
    /\ app_monitoring_enabled = FALSE
    /\ ticks = <<>>
    /\ sysfs = AllRw
    /\ hw = NoCall
    /\ lk = LockIdle
    /\ calc \in {[NoCalc EXCEPT !.curve = c] : c \in CalcCurves}
    /\ eval = NoEval
    /\ si = NoInstances

CalcNext == \E temp \in CalcTemps : Calculate(temp)

CalcSpec == CalcInit /\ [][CalcNext]_vars

\* The controller's apply calls on a store that is edited between them.
ControllerNext ==
    \/ \E i \in Indexes : ControllerApplySelect(i)
    \/ \E name \in NameInputs : ControllerApplyByName(name)
    \/ ControllerApplyHardware
    \/ \E i \in Indexes : ControllerDelete(i)

ControllerSpec == MonitorSpecInit /\ [][ControllerNext]_vars

\* Single calls of the functions of the section above.
FunctionsNext ==
    \/ Validate
    \/ CpuLoad
    \/ GetSystemStats
    \/ SetBacklightBrightness
    \/ ChooseFanTemp
    \/ FanNumber
    \/ SetThenGetBrightness
    \/ FindProfileForApp

FunctionsSpec == Init /\ [][FunctionsNext]_vars

\* The store mutated while the daemon is started, stopped and handed profiles.
SnapshotNext ==
    \/ \E p \in DaemonProfiles : AddProfile(p, "ok")
    \/ \E i \in Indexes, p \in DaemonProfiles : UpdateProfile(i, p, "ok")
    \/ \E i \in Indexes : DeleteProfile(i, "ok")
    \/ \E i \in Indexes : SetActiveProfile(i)
    \/ ManagerStartFanDaemon
    \/ StartStore
    \/ StartSpawn
    \/ Stop
    \/ \E p \in DaemonProfiles : DaemonUpdateProfile(p)

SnapshotSpec == Init /\ [][SnapshotNext]_vars

\* The daemon manager beside the tray, which drives the controller directly.
ManagerNext ==
    \/ \E i \in Indexes : ManagerApplySelect(i)
    \/ ManagerApplyHardware
    \/ ManagerUpdateDaemon
    \/ ManagerSyncMonitoring
    \/ ManagerStartAppMonitoring
    \/ ManagerStopAppMonitoring
    \/ StartAppMonitoring
    \/ StopAppMonitoring
    \/ \E t \in MonitorIds : MonitorCheck(t)

ManagerSpec == MonitorSpecInit /\ [][ManagerNext]_vars

\* The processes that start the application, each with its SingleInstance.
SingleInstanceNext ==
    \/ \E i \in Instances : TryAcquireCheck(i)
    \/ \E i \in Instances : TryAcquireRemove(i)
    \/ \E i \in Instances : TryAcquireOpen(i)
    \/ \E i \in Instances : TryAcquireWrite(i)
    \/ \E i \in Instances : Release(i)
    \/ \E i \in Instances : Exit(i)

SingleInstanceSpec == Init /\ [][SingleInstanceNext]_vars

SystemSignals == {None, Some(STEAM)}
SystemStats == {None, Some([cpu |-> Some(60), gpu |-> None])}

SystemInit ==
    /\ MonitorSpecInit
    /\ profiles = <<default_profile, GamingProfile>>

SystemNext ==
    \/ ManagerStartFanDaemon
    \/ StartStore
    \/ StartSpawn
    \/ \E i \in Indexes : ControllerApplySelect(i)
    \/ ControllerApplyHardware
    \/ \E i \in Indexes : ManagerApplySelect(i)
    \/ ManagerApplyHardware
    \/ ManagerUpdateDaemon
    \/ ManagerSyncMonitoring
    \/ \E t \in MonitorIds : MonitorCheck(t)
    \/ \E t \in MonitorIds, got \in SystemSignals : MonitorDetect(t, got)
    \/ \E t \in MonitorIds : MonitorLookup(t)
    \/ \E t \in MonitorIds : MonitorApply(t)
    \/ \E t \in MonitorIds : MonitorSleep(t)
    \/ \E t \in LoopIds : LoopCheck(t)
    \/ \E t \in LoopIds, got \in SystemStats : LoopStats(t, got)
    \/ \E t \in LoopIds : LoopSnapshot(t)
    \/ \E t \in LoopIds, f \in {"fan1", "fan2"} : LoopApply(t, f, "ok")
    \/ \E t \in LoopIds : LoopSleep(t)

SystemSpec == SystemInit /\ [][SystemNext]_vars

\* The store with its file rewritten from outside and read again.
LoadNext ==
    \/ \E read_ok \in BOOLEAN : LoadProfiles(read_ok)
    \/ \E c \in FileInputs : ExternalEdit(c)
    \/ \E p \in ProfileInputs : AddProfile(p, "ok")
    \/ \E i \in Indexes, p \in ProfileInputs : UpdateProfile(i, p, "ok")
    \/ \E i \in Indexes : DeleteProfile(i, "ok")
    \/ \E i \in Indexes : SetActiveProfile(i)

LoadSpec == Init /\ [][LoadNext]_vars

\* The monitoring loop alone, from the state start_app_monitoring leaves.
TickInit ==
    /\ MonitorStoreInit
    /\ DaemonInit
    /\ monitoring_enabled = TRUE
    /\ monitors = [t \in MonitorIds |->
                      IF t = 1 THEN [NoMonitor EXCEPT !.pc = "check"] ELSE NoMonitor]
    /\ hw_applied = None
    /\ RestInit

TickNext == \E got \in DetectResults : MonitorTick(1, got)

TickSpec == TickInit /\ [][TickNext]_vars

\* The hardware writer in every environment of SysfsInputs.
HardwareInit ==
    /\ StoreInit /\ DaemonInit /\ MonitorInit
    /\ app_monitoring_enabled = FALSE
    /\ ticks = <<>>
    /\ sysfs \in SysfsInputs
    /\ hw = NoCall
    /\ lk = LockIdle
    /\ calc = NoCalc
    /\ eval = NoEval
    /\ si = NoInstances

HardwareNext ==
    \/ \E p \in HwProfiles, cs \in CpuSettingsInputs : HwApplyProfile(p, cs)
    \/ HwKeyboard
    \/ HwFanCurves
    \/ HwCpuSettings
    \/ HwScreenBrightness
    \/ HwReturn
    \/ \E f \in {"fan1", "fan2"} : HwSetFanSpeed(f)

HardwareSpec == HardwareInit /\ [][HardwareNext]_vars

\* The two loops and one caller thread, seen at their locks and accesses.
LockNext ==
    \/ \E th \in Threads : LockAcquire(th)
    \/ \E th \in Threads : LockRelease(th)
    \/ \E th \in Threads : IoBegin(th)
    \/ \E th \in Threads : IoEnd(th)
    \/ \E th \in Threads : NextIteration(th)
    \/ \E op \in CallerOps : CallerCall(op)
    \/ CallerReturn

LockSpec == Init /\ [][LockNext]_vars

(***************************************************************************)
(* Claims about the profile store.                                         *)
(***************************************************************************)
Defaults == {i \in 1..Len(profiles) : profiles[i].is_default}

CheckFailures == {"err_validation", "err_duplicate", "err_bounds", "err_default"}

\* C1: the in-memory profile list is never empty.
C1_StoreNeverEmpty == Len(profiles) > 0

\* C2: exactly one stored profile has is_default = TRUE, after any sequence of
\* add_profile, update_profile and delete_profile calls on a fresh default store.
C2_ExactlyOneDefault == Cardinality(Defaults) = 1

\* C3: no two stored profiles have the same name.
C3_UniqueNames ==
    \A i, j \in 1..Len(profiles) : i # j => profiles[i].name # profiles[j].name

\* C7: an add_profile, update_profile or delete_profile call that fails on
\* validation, a duplicate name, an out-of-bounds index or the default
\* profile leaves the list, the active index and the file as they were.
C7_FailedCallLeavesStore ==
    [][(last'.op \in {"add", "update", "delete"} /\ last'.res \in CheckFailures)
         => UNCHANGED <<profiles, active_profile_index, file>>]_vars

C7_Witness ==
    /\ last.op = "add"
    /\ last.res = "err_duplicate"
    /\ Len(profiles) = 2

\* C8: a load_profiles that fails leaves the in-memory list as it was.
C8_FailedLoadLeavesList ==
    [][(last'.op = "load" /\ last'.res # "ok") => profiles' = profiles]_vars

\* C9: a delete_profile that passes its checks removes exactly the profile at
\* index, keeps the others in order, and sets the active index to 0 exactly
\* when it pointed past the new end, leaving it alone otherwise.
C9_DeleteRemovesOne ==
    [][(last'.op = "delete" /\ last'.res \in {"ok", "err_io"}) =>
         LET k == last'.index + 1
         IN  /\ Len(profiles') = Len(profiles) - 1
             /\ \A j \in 1..Len(profiles') :
                    profiles'[j] = IF j < k THEN profiles[j] ELSE profiles[j + 1]
             /\ IF active_profile_index >= Len(profiles')
                THEN active_profile_index' = 0
                ELSE active_profile_index' = active_profile_index]_vars

\* A delete below the active index that left a non-zero active index alone.
C9_Witness ==
    /\ last = Call("delete", 1, "ok")
    /\ active_profile_index = 1
    /\ Len(profiles) = 2


(***************************************************************************)
(* Claims about the fan daemon.                                            *)
(***************************************************************************)
LiveLoops == {t \in LoopIds : loops[t].pc \notin {"none", "exited"}}

\* C4: a start call that finds the daemon running returns success and leaves
\* the running flag, the snapshot and the set of loop threads as they were:
\* it is not inside start afterwards, so it stores and spawns nothing.
C4_StartWhileRunningIsNoop ==
    [][(running /\ \E p \in DaemonProfiles : StartCheck(p)) =>
         /\ last' = Call("start", 0, "already_running")
         /\ caller' = None
         /\ UNCHANGED <<running, current_profile, loops>>]_vars

C4_Witness ==
    /\ last = Call("start", 0, "already_running")
    /\ running
    /\ Cardinality(LiveLoops) = 1
    /\ current_profile = Some(default_profile)

\* C5: a loop launched before a stop exits at its next check of the running
\* flag, whatever calls follow the stop.
C5_StoppedLoopExits ==
    [][\A t \in LoopIds :
          (loops[t].pc = "check" /\ loops[t].stopped /\ loops'[t].pc # "check")
              => loops'[t].pc = "exited"]_vars

\* C6: every fan write of a tick is computed from the one snapshot the tick
\* read, and the snapshot a tick reads is the profile stored last.
TickSpeed(profile, stats, fan_id) ==
    calculate_fan_speed(profile.fan_curves[fan_id], FanTemp(fan_id, stats))

C6_TickUsesOneSnapshot ==
    [][\A t \in LoopIds :
          /\ (loops[t].pc = "snapshot" /\ loops'[t].pc = "apply")
                => loops'[t].profile = current_profile
          /\ (loops[t].pc = "apply" /\ loops'[t].pc = "apply")
                => (loops'[t].profile = loops[t].profile /\ loops'[t].stats = loops[t].stats)
          /\ \A w \in loops'[t].wrote \ loops[t].wrote :
                w.speed = TickSpeed(loops[t].profile[1], loops[t].stats[1], w.fan)]_vars

\* A tick that wrote one fan from the old profile after update_profile
\* stored another.
C6_Witness ==
    \E t \in LoopIds :
        /\ loops[t].pc = "apply"
        /\ loops[t].wrote # {}
        /\ loops[t].profile # current_profile
        /\ last.op = "daemon_update"

(***************************************************************************)
(* Claims about the application monitor.                                   *)
(***************************************************************************)
\* The store holds the profile "Gaming" (auto-switch, trigger "steam") and it
\* is the profile find_profile_for_app returns for the signal "steam".
GamingIsTheMatch ==
    /\ \E i \in 1..Len(profiles) : profiles[i] = GamingProfile
    /\ find_profile_for_app(profiles, STEAM) # None
    /\ profiles[find_profile_for_app(profiles, STEAM)[1] + 1] = GamingProfile

\* C10: a monitoring tick that detected "steam" while the store's match is
\* "Gaming" applies Gaming to the hardware and leaves Gaming the store's
\* active profile.
C10_AutoSwitchSelectsAndApplies ==
    [][\A t \in MonitorIds :
          (/\ monitors[t].pc = "apply"
           /\ monitors'[t].pc = "sleep"
           /\ monitors[t].current_app = STEAM
           /\ GamingIsTheMatch)
          => /\ hw_applied' = Some([name |-> "Gaming", by |-> "monitor"])
             /\ profiles'[active_profile_index' + 1].name = "Gaming"]_vars

\* The signal of the latest tick before tick i that detected one; the loop
\* starts from the empty signal.
RECURSIVE PrevSignal(_)
PrevSignal(i) ==
    IF i = 1 THEN NOAPP
    ELSE IF ticks[i - 1].signal # None THEN ticks[i - 1].signal[1]
    ELSE PrevSignal(i - 1)

\* C11: a tick looks up and applies a profile exactly when its detected signal
\* differs from the signal of the previous tick and an auto-switch profile
\* matches it; so of the ticks steam, (none), steam the first and the third apply.
C11_AppliesWhenSignalChanged ==
    \A i \in 1..Len(ticks) :
        IF ticks[i].signal = None THEN ticks[i].applied = None
        ELSE (ticks[i].applied # None) <=>
                 (/\ ticks[i].signal[1] # PrevSignal(i)
                  /\ find_profile_for_app(profiles, ticks[i].signal[1]) # None)

Attempted(node) == \E i \in 1..Len(hw.writes) : hw.writes[i].node = node
Rejected(node) ==
    \E i \in 1..Len(hw.writes) : hw.writes[i].node = node /\ ~hw.writes[i].ok
Failed(category) ==
    \E i \in 1..Len(hw.results) :
        hw.results[i].category = category /\ hw.results[i].res = "err"
CpuSettingsDone == hw.call = "apply_profile" /\ Len(hw.results) >= 3

\* C13: apply_profile attempts keyboard, fan curves, CPU settings and screen
\* brightness in that order whatever the earlier ones returned, and returns
\* success.
C13_AllCategoriesAttempted ==
    /\ \A i \in 1..Len(hw.results) : hw.results[i].category = Categories[i]
    /\ (hw.call = "apply_profile" /\ hw.pc = "done") =>
           /\ Len(hw.results) = Len(Categories)
           /\ hw.ret = Some("ok")

\* The keyboard and the CPU settings failed; the screen was still written and
\* the call returned success.
C13_Witness ==
    /\ hw.call = "apply_profile"
    /\ hw.pc = "done"
    /\ Failed("keyboard")
    /\ Failed("cpu_settings")
    /\ ~Failed("screen_brightness")
    /\ Attempted(backlight_paths[1])

\* C14: the governor is written to every present per-core governor node, and
\* a rejected write on one core stops neither the writes to the other cores
\* nor the frequency limits, boost and SMT that follow.
C14_GovernorBestEffort ==
    (CpuSettingsDone /\ exists(sysfs, CpuInfo)) =>
        /\ \A c \in Cores : exists(sysfs, Governor(c)) => Attempted(Governor(c))
        /\ (\A n \in Nodes : Rejected(n) => \E c \in Cores : n = Governor(c)) =>
               /\ exists(sysfs, IntelNoTurbo) => Attempted(IntelNoTurbo)
               /\ exists(sysfs, SmtControl) => Attempted(SmtControl)

\* C15: boost tries Intel no_turbo, AMD boost, then the per-core nodes, the
\* fan duty tries tuxedo_io fan{n}_manual_speed, then hwmon pwm{n}; a backend
\* that exists but rejects the write is followed by an attempt on the next.
C15_NextBackendAfterRejectedWrite ==
    /\ CpuSettingsDone =>
          /\ (Rejected(IntelNoTurbo) /\ exists(sysfs, AmdBoost)) => Attempted(AmdBoost)
          /\ (Attempted(AmdBoost) \/ \E c \in Cores : Attempted(CoreBoost(c)))
                 => (~exists(sysfs, IntelNoTurbo) \/ Rejected(IntelNoTurbo))
          /\ (\E c \in Cores : Attempted(CoreBoost(c)))
                 => (~exists(sysfs, AmdBoost) \/ Rejected(AmdBoost))
    /\ (hw.call = "set_fan_speed" /\ hw.pc = "done") =>
          LET n == unwrap_or(parse_fan_num(hw.fan_id[1]), 1)
          IN  /\ (Rejected(ManualSpeed(n)) /\ exists(sysfs, Hwmon) /\ exists(sysfs, Pwm(n)))
                     => Attempted(Pwm(n))
              /\ Attempted(Pwm(n)) =>
                     (~(exists(sysfs, TuxedoIo) /\ exists(sysfs, ManualSpeed(n)))
                      \/ Rejected(ManualSpeed(n)))

(***************************************************************************)
(* Claims about the locks.                                                 *)
(***************************************************************************)
\* C16: no thread holds a Mutex that guards cross-thread state while one of
\* its sysfs/procfs reads or writes is in progress.
C16_NoLockHeldDuringIo ==
    \A th \in Threads : lk[th].io # "none" => lk[th].held = {}

(***************************************************************************)
(* Claims about the sampling loop.                                         *)
(***************************************************************************)
FansWritten(thread) == {w.fan : w \in thread.wrote}

\* The step is a step of loop thread t itself.
LoopMoved(t) ==
    [loops'[t] EXCEPT !.stopped = FALSE] # [loops[t] EXCEPT !.stopped = FALSE]

C18_TickStepsInOrder ==
    [][\A t \in LoopIds :
          /\ (loops[t].pc = "check" /\ LoopMoved(t)) =>
                IF running THEN loops'[t].pc = "stats"
                ELSE loops'[t].pc = "exited" /\ loops'[t].wrote = {}
          /\ (loops[t].pc = "stats" /\ LoopMoved(t)) =>
                \/ loops'[t].pc = "snapshot" /\ loops'[t].stats # None
                \/ loops'[t].pc = "sleep"
          /\ (loops[t].pc = "snapshot" /\ LoopMoved(t)) =>
                \/ loops'[t].pc = "apply" /\ loops'[t].profile # None
                \/ loops'[t].pc = "sleep"
          /\ (loops'[t].wrote \ loops[t].wrote # {}) =>
                /\ loops[t].pc = "apply"
                /\ loops[t].stats # None
                /\ loops[t].profile # None
                /\ \A w \in loops'[t].wrote \ loops[t].wrote :
                       w.speed = calculate_fan_speed(loops[t].profile[1].fan_curves[w.fan],
                                                     FanTemp(w.fan, loops[t].stats[1]))]_vars

\* A tick that passed the check, read the sensors and the snapshot and wrote
\* its first fan.
C18_Witness ==
    \E t \in LoopIds :
        /\ loops[t].pc = "apply"
        /\ loops[t].stats # None
        /\ loops[t].profile # None
        /\ Cardinality(loops[t].wrote) = 1

(***************************************************************************)
(* Claims about the daemon and the applied profile.                        *)
(***************************************************************************)
\* The fan curves of the profile last handed to the hardware controller.
AppliedCurves ==
    (CHOOSE p \in {profiles[i] : i \in 1..Len(profiles)} :
         p.name = hw_applied[1].name).fan_curves

\* C19: once a profile has been applied, by ProfileController::apply_profile,
\* by DaemonManager::apply_profile or by an automatic switch of the
\* application monitor, every tick of the fan daemon that reads its snapshot
\* after the call has returned works with the fan curves of that profile.
C19_TickUsesAppliedProfile ==
    [][\A t \in LoopIds :
          (/\ loops[t].pc = "snapshot"
           /\ loops'[t].pc = "apply"
           /\ caller = None
           /\ hw_applied # None)
             => loops'[t].profile[1].fan_curves = AppliedCurves]_vars

(***************************************************************************)
(* Claims about calculate_fan_speed.                                       *)
(***************************************************************************)
\* Twice the distance, in units of 1 / (p2.temp - p1.temp), between speed and
\* the point of the line through p1 and p2 at temp.
TwiceDistance(speed, p1, p2, temp) ==
    LET exact == p1.speed * (p2.temp - p1.temp) + (p2.speed - p1.speed) * (temp - p1.temp)
        got == speed * (p2.temp - p1.temp)
    IN  IF got >= exact THEN 2 * (got - exact) ELSE 2 * (exact - got)

\* C20: on a validated curve calculate_fan_speed returns the first point's
\* speed at or below the first temperature, the last point's speed at or above
\* the last temperature, and between them an integer nearest to the line
\* through the two adjacent points that bracket the temperature; at the
\* temperature of a curve point it returns that point's speed.
C20_InterpolatesToNearest ==
    calc.done =>
        LET c == calc.curve
            n == Len(c)
        IN  /\ calc.temp <= c[1].temp => calc.speed = c[1].speed
            /\ calc.temp >= c[n].temp => calc.speed = c[n].speed
            /\ \A i \in 1..(n - 1) :
                   (/\ c[1].temp < calc.temp
                    /\ calc.temp < c[n].temp
                    /\ c[i].temp <= calc.temp
                    /\ calc.temp <= c[i + 1].temp)
                      => TwiceDistance(calc.speed, c[i], c[i + 1], calc.temp)
                             <= c[i + 1].temp - c[i].temp
            /\ \A i \in 1..n : calc.temp = c[i].temp => calc.speed = c[i].speed

\* A temperature strictly inside a segment where the line passes exactly
\* half-way between two integers and the lower one is returned.
C20_Witness ==
    /\ calc.done
    /\ \E i \in 1..(Len(calc.curve) - 1) :
           LET p1 == calc.curve[i]
               p2 == calc.curve[i + 1]
           IN  /\ p1.temp < calc.temp
               /\ calc.temp < p2.temp
               /\ 2 * (p1.speed * (p2.temp - p1.temp)
                       + (p2.speed - p1.speed) * (calc.temp - p1.temp)
                       - calc.speed * (p2.temp - p1.temp)) = p2.temp - p1.temp

(***************************************************************************)
(* Claims about functions taken alone.                                     *)
(***************************************************************************)
\* C21: FanCurve::validate succeeds exactly on the curves of eight points
\* whose temperatures rise strictly with the index and whose speeds are all
\* at most 100.
C21_ValidateExactlyWellFormed ==
    eval.op = "validate" =>
        LET curve == eval.args[1]
        IN  (eval.result = "ok") <=>
                /\ Len(curve) = 8
                /\ \A i, j \in 1..Len(curve) : i < j => curve[i].temp < curve[j].temp
                /\ \A i \in 1..Len(curve) : curve[i].speed <= 100

\* An eight-point curve with speeds in range is rejected for two adjacent
\* points of equal temperature.
C21_Witness ==
    /\ eval.op = "validate"
    /\ eval.result = "err"
    /\ Len(eval.args[1]) = 8
    /\ \A i \in 1..8 : eval.args[1][i].speed <= 100
    /\ \E i \in 2..8 : eval.args[1][i].temp = eval.args[1][i - 1].temp
    /\ \A i \in 2..8 : eval.args[1][i].temp >= eval.args[1][i - 1].temp

(***************************************************************************)
(* Claims about the store and the controller, continued.                   *)
(***************************************************************************)
\* C22: when add_profile, update_profile or delete_profile has returned Ok,
\* the file is the serialisation of the whole in-memory list, in list order,
\* and loading it gives that list back.
C22_FileIsWholeListAfterMutation ==
    [][(last'.op \in {"add", "update", "delete"} /\ last'.res = "ok") =>
          /\ file' = to_string_pretty(profiles')
          /\ load_profiles_mem(<<>>, file', TRUE) = [res |-> "ok", profiles |-> profiles']]_vars

\* A delete that succeeded and left more than one profile in the file.
C22_Witness ==
    /\ last.op = "delete"
    /\ last.res = "ok"
    /\ Len(profiles) >= 2
    /\ file = to_string_pretty(profiles)

\* C23: apply_profile with an index inside the list makes it the active index
\* and hands the profile stored there to the hardware controller; with an
\* index outside the list it returns an error, leaves the active index alone
\* and writes nothing to the hardware; apply_profile_by_name with a name no
\* profile has returns an error and changes nothing.
C23_ApplySelectsThenWrites ==
    [][/\ \A i \in Indexes :
              ControllerApplySelect(i) =>
                  IF i < Len(profiles)
                  THEN /\ active_profile_index' = i
                       /\ caller' = Some([pc |-> "apply_hw", profile |-> profiles[i + 1]])
                       /\ hw_applied' = hw_applied
                  ELSE /\ last' = Call("apply", i, "err_bounds")
                       /\ UNCHANGED <<active_profile_index, hw_applied, caller, profiles>>
       /\ ControllerApplyHardware =>
              /\ hw_applied' = Applied(profiles[active_profile_index + 1], "controller")
              /\ hw_applied' = Applied(caller[1].profile, "controller")
              /\ last' = Call("apply", active_profile_index, "ok")
              /\ UNCHANGED <<active_profile_index, profiles>>
       /\ \A name \in NameInputs :
              (/\ ControllerApplyByName(name)
               /\ \A k \in 1..Len(profiles) : profiles[k].name # name)
                  => /\ last' = Call("apply_by_name", 0, "err_not_found")
                     /\ UNCHANGED <<active_profile_index, hw_applied, caller, profiles, file>>
       /\ hw_applied' # hw_applied => ControllerApplyHardware]_vars

\* An apply has made a non-zero index the active one and handed the profile
\* stored there to the hardware.
C23_Witness ==
    /\ hw_applied # None
    /\ hw_applied[1].by = "controller"
    /\ active_profile_index > 0
    /\ hw_applied[1].name = profiles[active_profile_index + 1].name
    /\ last = Call("apply", active_profile_index, "ok")

\* C24: for any two samples of a core calculate_cpu_load returns
\* 100 * (1 - idle_delta / total_delta) cut to [0, 100], the deltas being the
\* differences of the idle and total counters, 0 where a counter decreased;
\* it returns 0 when the total delta is 0.
C24_CpuLoadIsClampedRatio ==
    eval.op = "calculate_cpu_load" =>
        LET prev == eval.args[1]
            curr == eval.args[2]
            idle_delta == saturating_sub(curr.idle + curr.iowait, prev.idle + prev.iowait)
            total_delta ==
                saturating_sub(curr.user + curr.nice + curr.system + curr.idle
                                 + curr.iowait + curr.irq + curr.softirq,
                               prev.user + prev.nice + prev.system + prev.idle
                                 + prev.iowait + prev.irq + prev.softirq)
            r == eval.result
        IN  /\ r.kind = "value"
            /\ IF total_delta = 0 \/ idle_delta >= total_delta
               THEN r.num = 0
               ELSE r.num * total_delta = 100 * (total_delta - idle_delta) * r.den

\* C25: a sensor source that cannot be read (an unreadable or missing /proc/stat,
\* /proc/cpuinfo, hwmon or drm node) is absorbed into an unavailable field:
\* get_system_stats returns a snapshot, never an error.
C25_SensorFailureIsAbsorbed ==
    eval.op = "get_system_stats" => eval.result.kind = "ok"

\* C26: the raw value written for a percentage p in 0..100 and a device maximum
\* m is the nearest integer to p * m / 100 (within one half of it).
C26_BacklightIsRoundedShare ==
    eval.op = "set_backlight_brightness" =>
        LET p == eval.args[1]
            m == eval.args[2]
        IN  /\ 200 * eval.result <= 2 * p * m + 100
            /\ 200 * eval.result >= 2 * p * m - 100

(***************************************************************************)
(* Claims about the values written.                                        *)
(***************************************************************************)
BoostNodes == {IntelNoTurbo, AmdBoost} \cup {CoreBoost(c) : c \in Cores}
\* The steps of apply_cpu_settings before set_cpu_boost went through.
BoostReached ==
    /\ CpuSettingsDone
    /\ get_cpu_count(sysfs) # None
    /\ \A c \in Cores : ~Rejected(Governor(c)) /\ ~Rejected(MinFreq(c)) /\ ~Rejected(MaxFreq(c))

HasCpu(fan_id) == contains(FanIdChars(fan_id), <<"c", "p", "u">>)
HasGpu(fan_id) == contains(FanIdChars(fan_id), <<"g", "p", "u">>)
Max(a, b) == IF a >= b THEN a ELSE b

\* C28: in a tick a fan whose identifier contains "cpu" or is "fan1" uses the
\* CPU package temperature, otherwise one whose identifier contains "gpu" or is
\* "fan2" uses the temperature of the first GPU, and any other fan uses the
\* higher of the two; a reading that is missing counts as 50.
C28_TemperatureByIdentifier ==
    eval.op = "fan_temp" =>
        LET fan_id == eval.args[1]
            package_temp == eval.args[2]
            gpus == eval.args[3]
            cpu_temp == IF package_temp = None THEN 50 ELSE package_temp[1]
            gpu_temp == IF gpus = <<>> \/ gpus[1].temperature = None THEN 50
                        ELSE gpus[1].temperature[1]
        IN  eval.result =
                IF HasCpu(fan_id) \/ fan_id = "fan1" THEN cpu_temp
                ELSE IF HasGpu(fan_id) \/ fan_id = "fan2" THEN gpu_temp
                ELSE Max(cpu_temp, gpu_temp)

\* The GPU fan of a machine whose first GPU reports no temperature: 50, though
\* the CPU and the second GPU are hotter.
C28_Witness ==
    /\ eval.op = "fan_temp"
    /\ eval.args = <<"gpu_fan2", Some(72), <<[temperature |-> None], [temperature |-> Some(60)]>>>>
    /\ eval.result = 50

\* C29: the fan number of the duty write is the number the identifier ends in
\* (an identifier ending in 2 targets fan 2), and fan 1 when the identifier
\* ends in no number.
C29_FanNumberFromTrailingDigits ==
    eval.op = "fan_num" =>
        eval.result = unwrap_or(parse_fan_num_TrailingDigits(eval.args[1]), 1)

(***************************************************************************)
(* Claims about the keyboard brightness.                                   *)
(***************************************************************************)
\* C30: with max_brightness 255, set_brightness(p) followed by get_brightness()
\* returns p for every p in 0..100, and set_brightness(p) with p > 100 fails
\* and leaves the brightness node as it was.
C30_BrightnessRoundTrip ==
    (eval.op = "set_get_brightness" /\ eval.args[2] = 255) =>
        IF eval.args[1] <= 100
        THEN eval.result.set = "ok" /\ eval.result.get = Some(eval.args[1])
        ELSE eval.result.set = "err" /\ eval.result.content = MockBrightness

(***************************************************************************)
(* Claims about SingleInstance.                                            *)
(***************************************************************************)
Holders == {i \in Instances : si.inst[i].pc = "acquired"}

\* C31: at most one SingleInstance holds the lock at any time: while one has
\* acquired it and not released it, try_acquire of every other instance returns
\* false, however the try_acquire calls interleave.
C31_AtMostOneHolder == Cardinality(Holders) <= 1

\* C40: an instance that did not acquire the lock never removes the lock file:
\* its release or drop leaves the path as it was.
C40_NonHolderKeepsLockFile ==
    [][\A i \in Instances :
          (si.inst[i].pc = "refused" /\ si'.inst[i].pc = "released") =>
              si'.path = si.path]_vars

(***************************************************************************)
(* Claims about find_profile_for_app.                                      *)
(***************************************************************************)
\* Two characters that are the same letter, whatever their case.
SameLetter(a, b) ==
    \/ a = b
    \/ \E pair \in {<<"s", "S">>, <<"t", "T">>, <<"e", "E">>, <<"a", "A">>, <<"m", "M">>} :
           {a, b} = {pair[1], pair[2]}
SubstringIgnoringCase(trigger, signal) ==
    \E k \in 0..(Len(signal) - Len(trigger)) :
        \A j \in 1..Len(trigger) : SameLetter(signal[k + j], trigger[j])
Triggered(profile, signal) ==
    /\ profile.auto_switch_enabled
    /\ \E k \in 1..Len(profile.trigger_apps) :
           SubstringIgnoringCase(profile.trigger_apps[k], signal)

\* C32: find_profile_for_app returns the lowest index of a profile that has
\* auto_switch_enabled and a trigger that is a case-insensitive substring of
\* the signal, and none when there is no such profile.
C32_FindsLowestEnabledMatch ==
    eval.op = "find_profile_for_app" =>
        LET ps == eval.args[1]
            signal == eval.args[2]
            hits == {i \in 1..Len(ps) : Triggered(ps[i], signal)}
        IN  IF hits = {} THEN eval.result = None
            ELSE /\ eval.result # None
                 /\ eval.result[1] + 1 \in hits
                 /\ \A i \in hits : eval.result[1] + 1 <= i

\* The first profile matches the signal but has auto-switch off, the second
\* matches nothing, the third is enabled and matches in another case.
C32_Witness ==
    /\ eval.op = "find_profile_for_app"
    /\ Len(eval.args[1]) = 3
    /\ eval.args[2] = <<"S", "T", "e", "a", "m">>
    /\ ~eval.args[1][1].auto_switch_enabled /\ eval.args[1][1].trigger_apps = <<STEAM>>
    /\ eval.args[1][3].auto_switch_enabled /\ eval.args[1][3].trigger_apps = <<STEAM>>
    /\ eval.result = Some(2)

(***************************************************************************)
(* Claims about the loop threads and the snapshot.                         *)
(***************************************************************************)
\* C33: at most one loop thread goes on writing to the hardware: a sampling
\* loop begins another tick only when every other loop thread is gone or was
\* launched before a stop, also when a start follows a stop before the old
\* loop has checked the flag.
C33_OneLoopGoesOn ==
    [][\A t \in LoopIds :
          (loops[t].pc = "check" /\ loops'[t].pc = "stats") =>
              \A u \in LoopIds \ {t} :
                  loops[u].pc \in {"none", "exited"} \/ loops[u].stopped]_vars

\* C34: the daemon's snapshot is a copy of its own: no add, update, delete or
\* set_active of the store changes it; it changes only when start stores the
\* profile it was given, having found the daemon stopped, and in update_profile.
C34_SnapshotIsIsolated ==
    [][/\ <<profiles, active_profile_index, file>>' # <<profiles, active_profile_index, file>>
           => current_profile' = current_profile
       /\ current_profile' # current_profile
           => \/ StartStore
              \/ \E p \in DaemonProfiles : DaemonUpdateProfile(p)]_vars

\* The daemon was started with the default profile, which was then replaced
\* in the store: the snapshot is still the profile of the start.
C34_Witness ==
    /\ running
    /\ current_profile = Some(default_profile)
    /\ last.op = "update" /\ last.res = "ok" /\ last.index = 0
    /\ profiles[1] # default_profile

(***************************************************************************)
(* Claims about the daemon manager.                                        *)
(***************************************************************************)
\* The call of DaemonManager::apply_profile that returns in this step.
ManagerApplyReturns(res) ==
    /\ last' # last \/ (caller # None /\ caller' = None)
    /\ last'.op = "manager_apply"
    /\ last'.res = res
    /\ caller' = None

\* C35: after DaemonManager::apply_profile(i) succeeds the snapshot of the fan
\* daemon is the profile at index i and the application monitoring runs exactly
\* when that profile has auto_switch_enabled; when it fails because i is out of
\* bounds, the snapshot, the monitoring and the active index are unchanged.
C35_ApplyUpdatesDaemons ==
    [][/\ ManagerApplyReturns("ok")
           => /\ current_profile' = Some(profiles'[last'.index + 1])
              /\ monitoring_enabled' <=> profiles'[last'.index + 1].auto_switch_enabled
       /\ ManagerApplyReturns("err_bounds")
           => /\ current_profile' = current_profile
              /\ monitoring_enabled' = monitoring_enabled
              /\ active_profile_index' = active_profile_index]_vars

\* C39: DaemonManager::is_app_monitoring_running, which returns the manager's
\* own flag, is true exactly when the flag of the controller is set.
C39_ManagerFlagFollowsController ==
    Idle => (app_monitoring_enabled <=> monitoring_enabled)

(***************************************************************************)
(* Claims about the active index of the store.                             *)
(***************************************************************************)
\* C36: in every reachable state of the store the active index is smaller than
\* the number of profiles, so that get_active_profile never indexes out of
\* bounds.
C36_ActiveIndexInRange == active_profile_index < Len(profiles)

\* C37: a delete_profile(index) that succeeds with index different from the
\* active index leaves the active profile the one it was: get_active_profile
\* returns a profile of the same name after the call.
C37_DeleteKeepsActiveProfile ==
    [][(/\ last'.op = "delete"
        /\ last'.res = "ok"
        /\ Len(profiles') < Len(profiles)
        /\ last'.index # active_profile_index
        /\ active_profile_index < Len(profiles))
           => /\ active_profile_index' < Len(profiles')
              /\ profiles'[active_profile_index' + 1].name
                     = profiles[active_profile_index + 1].name]_vars

(***************************************************************************)
(* Claims about the order of the locks.                                    *)
(***************************************************************************)
\* Thread a is at a lock that thread b holds.
WaitsFor(a, b) ==
    /\ ~AtEnd(a)
    /\ lk[a].io = "none"
    /\ Instr(a)[1] = "lock"
    /\ Instr(a)[2] \in lk[b].held

\* An order of the Mutexes: a thread takes a lock only above those it holds.
LockRank(m) ==
    CASE m = "daemon_manager" -> 0
      [] m \in {"profile_controller", "fan_daemon", "app_monitoring_enabled"} -> 1
      [] OTHER -> 2

\* C38: no interleaving of the caller's operations with the two loops
\* deadlocks: no thread waits for a lock within a cycle of waiting threads (a
\* thread waiting for a lock it holds itself included), and every lock is
\* taken in one order, above all the locks its thread holds.
C38_NoDeadlock ==
    /\ \A a \in Threads : ~WaitsFor(a, a)
    /\ \A a, b \in Threads : ~(WaitsFor(a, b) /\ WaitsFor(b, a))
    /\ \A a, b, c \in Threads : ~(WaitsFor(a, b) /\ WaitsFor(b, c) /\ WaitsFor(c, a))
    /\ \A a \in Threads :
           (~AtEnd(a) /\ Instr(a)[1] = "lock")
               => \A m \in lk[a].held : LockRank(m) < LockRank(Instr(a)[2])

\* The caller inside DaemonManager::apply_profile, holding the manager and the
\* fan daemon, waits for the snapshot that the sampling loop holds.
C38_Witness ==
    /\ WaitsFor("caller", "fan_loop")
    /\ lk["caller"].held = {"daemon_manager", "fan_daemon"}
    /\ lk["caller"].prog = "manager_apply_start"
====
